---- MODULE Spec2Model ----
(***************************************************************************)
(* OracleBox controller (src/pi/oraclebox.py): the audio-device arbiter    *)
(* (fx_thread), the process supervisor (_stop_fx_proc, _start_passthrough, *)
(* _stop_passthrough), the playback path (play_sound) and the command      *)
(* handlers that touch them, as interleaved threads over the module's      *)
(* globals.  One TLA+ step is one read or write of a shared global, or one *)
(* lock-protected region; sleeps are the points between steps.             *)
(***************************************************************************)
EXTENDS Integers, Sequences, FiniteSets, TLC

(* ------------------------------ bounds -------------------------------- *)

\* play_sound threads that trigger threads may have in flight at once.
MaxPlayThreads == 1
\* threading.Timer threads that FM TEST may have pending at once.
MaxTimers == 1
\* Steps of a ramp sweep_thread is followed through where it runs next to
\* fx_thread and play_sound.
MaxSweepSteps == 2

(* ----------------------------- constants ------------------------------ *)

\* Python's None, as the value of a handle.
None == [kind |-> "None"]

FxT == <<"fx", 0>>
CmdT == <<"cmd", 0>>
SweepT == <<"sweep", 0>>
\* The holder of a lock nobody holds.
Unlocked == <<"none", 0>>
PlayThreads == {<<"play", i>> : i \in 1..MaxPlayThreads}
TimerThreads == {<<"timer", i>> : i \in 1..MaxTimers}
Threads == {FxT, CmdT, SweepT} \cup PlayThreads \cup TimerThreads
\* Threads that may run play_sound: the command handler and trigger threads.
PlayCtx == {CmdT} \cup PlayThreads

DefaultDevice == "plughw:3,0"
BtSink == "bluez_sink"
NoDevice == "None"
BtMac == "AA:BB"
\* The address of the phone BT_AUDIO STREAM_PHONE finds connected.
PhoneMac == "CC:DD"

\* The FX_PRESETS literal, restricted to the entries the commands of this
\* model name.
FX_PRESETS_init ==
    [FM_RAW_PORTAL |->
        [bp_low |-> 500, bp_high |-> 2600, reverb_room |-> 30,
         reverb_damping |-> 45, reverb_wet |-> 85, reverb_dry |-> 65,
         contrast_amount |-> 18, pre_gain_db |-> -6, post_gain_db |-> 8]]

\* (param, value) pairs FX SET is issued with.
FxSetInputs == {<<"BP_LOW", 600>>, <<"BP_LOW", 50>>, <<"GAIN", 3>>}
\* Preset names FX PRESET SET is issued with.
PresetInputs == {"FM_RAW_PORTAL", "NO_SUCH_PRESET"}
\* Values FX SET BP_LOW and FX SET BP_HIGH are issued with, in Hz.
BandValues == {50, 100, 250, 300, 400, 1900, 2000, 2100, 4900, 5000, 5100}
\* Names FX PRESET SAVE is issued with, after `.upper()`.
SavedPreset == "MINE"

\* An argument of a command line is a token of `command.split()`, kept as
\* the sequence of its characters.
T_10 == <<"1", "0">>
T_100 == <<"1", "0", "0">>
T_300 == <<"3", "0", "0">>
T_600 == <<"6", "0", "0">>
T_minus5 == <<"-", "5">>
T_abc == <<"a", "b", "c">>

\* Arguments SPEED is issued with.
SpeedArgs == {T_100, T_abc}
\* Arguments SPEED is issued with where the speed commands are on their own.
SpeedArgsWide == {T_10, T_100, T_300, T_600, T_minus5, T_abc}
\* Arguments DIR is issued with, after `.upper()`.
DirArgs == {"UP", "DOWN", "TOGGLE", "SIDEWAYS"}
\* (field, value) arguments SWEEP_CFG is issued with.
SweepCfgArgs ==
    {<<"MIN", T_10>>, <<"MAX", T_10>>, <<"SPEED", T_10>>, <<"MIN", T_300>>,
     <<"MAX", T_minus5>>, <<"SPEED", T_abc>>, <<"COLOR", T_10>>}
\* (field, value) arguments BOX_CFG is issued with.
BoxCfgArgs == {<<"MIN", T_100>>, <<"MAX", T_10>>, <<"SPEED", T_300>>}
\* (param, value) arguments FX SET is issued with, as tokens.
FxSetArgs ==
    {<<"BP_LOW", T_600>>, <<"BP_LOW", T_10>>, <<"GAIN", T_10>>,
     <<"REVERB", T_abc>>}
\* (name, <<bp_low, bp_high, contrast, reverb, gain>>) arguments
\* FX PRESET SAVE is issued with, the numbers as tokens.
PresetSaveArgs ==
    {<<SavedPreset, <<T_300, T_600, T_10, T_10, T_10>>>>,
     <<SavedPreset, <<T_10, T_600, T_100, T_300, T_minus5>>>>,
     <<"FM_RAW_PORTAL", <<T_600, T_300, T_10, T_10, T_10>>>>,
     <<SavedPreset, <<T_300, T_600, T_abc, T_10, T_10>>>>}

(* ------------------------------ state --------------------------------- *)

VARIABLES
    state,              \* OracleBoxState: running, direction, speed_index
    fx_config,          \* FxConfig
    audio_config,       \* AudioConfig
    led_config,         \* LedConfig
    FX_PRESETS,         \* module global: the presets dictionary
    disk,               \* the files config.json and led_config.json hold
    _fx_needs_restart,  \* module global
    _fx_proc,           \* module global: handle of the effects pipeline
    _passthrough_proc,  \* module global: handle of the passthrough pipeline
    fx_lock,            \* the thread holding fx_lock, or Unlocked
    orphans,            \* OS view: kinds of the live pipelines no handle refers to
    pc,                 \* per thread: position in its code
    ret,                \* per thread: where the supervisor call returns to
    fx_local,           \* fx_thread locals: enabled, needs_restart, sweep_running, cmd
    fx_was_running,     \* play_sound local, per calling thread
    output_device,      \* _start_passthrough local, per calling thread
    device,             \* set_audio_output_device argument
    sw_local,           \* sweep_thread locals, and set_freq's last result
    main_local          \* __main__: the startup sound, its player, fx threads

vars == <<state, fx_config, audio_config, led_config, disk, FX_PRESETS,
          _fx_needs_restart, _fx_proc, _passthrough_proc, fx_lock, orphans,
          pc, ret, fx_local, fx_was_running, output_device, device,
          sw_local, main_local>>

\* The configuration objects and the files they are saved to.
cfgVars == <<state, fx_config, audio_config, led_config, disk, FX_PRESETS>>

(* ----------------------------- helpers -------------------------------- *)

Max2(a, b) == IF a >= b THEN a ELSE b
Min2(a, b) == IF a <= b THEN a ELSE b

NoCmd == [kind |-> "none"]

\* OracleBoxState.__init__
OracleBoxState_init == [speed_index |-> 2, direction |-> 1, running |-> FALSE]

\* FxConfig.__init__
FxConfig_init ==
    [enabled |-> FALSE, bp_low |-> 500, bp_high |-> 2600, reverb_room |-> 30,
     reverb_damping |-> 45, reverb_wet |-> 85, reverb_dry |-> 65,
     contrast_amount |-> 18, pre_gain_db |-> -6, post_gain_db |-> 8,
     preset |-> "FM_RAW_PORTAL"]

\* AudioConfig.__init__
AudioConfig_init ==
    [default_device |-> DefaultDevice, bt_device |-> NoDevice,
     bt_connected |-> FALSE, current_device |-> DefaultDevice]

\* LedConfig.__init__
LedConfig_init ==
    [sweep_min_brightness |-> 0, sweep_max_brightness |-> 255,
     sweep_speed |-> 3, box_min_brightness |-> 0,
     box_max_brightness |-> 255, box_speed |-> 3]

\* Sweep speeds in ms.
SWEEP_SPEEDS_MS == <<50, 100, 150, 200, 250, 300, 350>>

\* OracleBoxState.to_config_dict, as far as the state of this model goes:
\* the running flag is never saved.
to_config_dict(st) ==
    [speed_ms |-> SWEEP_SPEEDS_MS[st.speed_index + 1],
     direction |-> IF st.direction = 1 THEN "up" ELSE "down"]

\* OracleBoxState.save_to_config: config.json is rewritten, or the write
\* raises, the exception is caught and printed, and the file is as it was.
\* Either way the call returns normally.
save_to_config(st) ==
    \E written \in BOOLEAN :
        disk' = IF written THEN [disk EXCEPT !.config = to_config_dict(st)]
                ELSE disk

\* LedConfig.save: as save_to_config, for led_config.json.
LedConfig_save(led) ==
    \E written \in BOOLEAN :
        disk' = IF written THEN [disk EXCEPT !.led = led] ELSE disk

\* build_sox_cmd_from_fx, had it baked the stored values in as they are.
build_sox_cmd_from_fx_unclamped(fx, dev) ==
    IF ~fx.enabled THEN NoCmd
    ELSE [kind |-> "fx",
          bp_low |-> fx.bp_low,
          bp_high |-> fx.bp_high,
          contrast |-> fx.contrast_amount,
          pre_gain |-> fx.pre_gain_db,
          post_gain |-> fx.post_gain_db,
          room |-> fx.reverb_room,
          damp |-> fx.reverb_damping,
          wet |-> fx.reverb_wet,
          dry |-> fx.reverb_dry,
          dev |-> dev]

\* build_sox_cmd_from_fx: the command line, as the values baked into it.
build_sox_cmd_from_fx(fx, dev) ==
    IF ~fx.enabled THEN NoCmd
    ELSE LET bp_low == Max2(100, Min2(2000, fx.bp_low))
         IN [kind |-> "fx",
             bp_low |-> bp_low,
             bp_high |-> Max2(bp_low + 200, Min2(5000, fx.bp_high)),
             contrast |-> Max2(0, Min2(40, fx.contrast_amount)),
             pre_gain |-> Max2(-24, Min2(0, fx.pre_gain_db)),
             post_gain |-> Max2(0, Min2(18, fx.post_gain_db)),
             room |-> Max2(0, Min2(100, fx.reverb_room)),
             damp |-> Max2(0, Min2(100, fx.reverb_damping)),
             wet |-> Max2(0, Min2(100, fx.reverb_wet)),
             dry |-> Max2(0, Min2(100, fx.reverb_dry)),
             dev |-> dev]

\* The passthrough command line of _start_passthrough.
passthrough_cmd(dev) == [kind |-> "pt", dev |-> dev]

\* FxConfig.apply_preset, with FX_PRESETS as it is at the call.
apply_preset(presets, fx, name) ==
    LET p == presets[name]
    IN [fx EXCEPT !.bp_low = p.bp_low, !.bp_high = p.bp_high,
                  !.reverb_room = p.reverb_room,
                  !.reverb_damping = p.reverb_damping,
                  !.reverb_wet = p.reverb_wet, !.reverb_dry = p.reverb_dry,
                  !.contrast_amount = p.contrast_amount,
                  !.pre_gain_db = p.pre_gain_db,
                  !.post_gain_db = p.post_gain_db, !.preset = name]

\* FX SET: does the handler accept (param, value)?
FxSetParams ==
    {"BP_LOW", "BP_HIGH", "REVERB", "REVERB_DAMP", "REVERB_WET",
     "REVERB_DRY", "CONTRAST", "PRE_GAIN", "POST_GAIN"}

FxSetAccepts(param, value) ==
    CASE param = "BP_LOW" -> 100 <= value /\ value <= 2000
      [] param = "BP_HIGH" -> 300 <= value /\ value <= 5000
      [] param \in {"REVERB", "REVERB_DAMP", "REVERB_WET", "REVERB_DRY"} ->
            0 <= value /\ value <= 100
      [] param = "CONTRAST" -> 0 <= value /\ value <= 40
      [] param = "PRE_GAIN" -> -24 <= value /\ value <= 0
      [] param = "POST_GAIN" -> 0 <= value /\ value <= 18
      [] OTHER -> FALSE


\* FxSetApply, had BP_LOW and BP_HIGH set their own edge only.
FxSetApply_no_adjust(fx, param, value) ==
    LET f ==
        CASE param = "BP_LOW" -> [fx EXCEPT !.bp_low = value]
          [] param = "BP_HIGH" -> [fx EXCEPT !.bp_high = value]
          [] param = "REVERB" -> [fx EXCEPT !.reverb_room = value]
          [] param = "REVERB_DAMP" -> [fx EXCEPT !.reverb_damping = value]
          [] param = "REVERB_WET" -> [fx EXCEPT !.reverb_wet = value]
          [] param = "REVERB_DRY" -> [fx EXCEPT !.reverb_dry = value]
          [] param = "CONTRAST" -> [fx EXCEPT !.contrast_amount = value]
          [] param = "PRE_GAIN" -> [fx EXCEPT !.pre_gain_db = value]
          [] param = "POST_GAIN" -> [fx EXCEPT !.post_gain_db = value]
    IN [f EXCEPT !.preset = "CUSTOM"]

\* FX SET: the FxConfig an accepted (param, value) leaves.
FxSetApply(fx, param, value) ==
    LET f ==
        CASE param = "BP_LOW" ->
                [fx EXCEPT !.bp_high = IF value + 200 > fx.bp_high
                                       THEN Min2(5000, value + 200)
                                       ELSE fx.bp_high,
                           !.bp_low = value]
          [] param = "BP_HIGH" ->
                [fx EXCEPT !.bp_low = IF value - 200 < fx.bp_low
                                      THEN Max2(100, value - 200)
                                      ELSE fx.bp_low,
                           !.bp_high = value]
          [] param = "REVERB" -> [fx EXCEPT !.reverb_room = value]
          [] param = "REVERB_DAMP" -> [fx EXCEPT !.reverb_damping = value]
          [] param = "REVERB_WET" -> [fx EXCEPT !.reverb_wet = value]
          [] param = "REVERB_DRY" -> [fx EXCEPT !.reverb_dry = value]
          [] param = "CONTRAST" -> [fx EXCEPT !.contrast_amount = value]
          [] param = "PRE_GAIN" -> [fx EXCEPT !.pre_gain_db = value]
          [] param = "POST_GAIN" -> [fx EXCEPT !.post_gain_db = value]
    IN [f EXCEPT !.preset = "CUSTOM"]

\* Python's range(start, stop, stride) as the sequence a for loop walks:
\* stop itself is never produced.
range(start, stop, stride) ==
    LET n == IF stride > 0
             THEN IF start < stop
                  THEN (stop - start + stride - 1) \div stride ELSE 0
             ELSE IF start > stop
                  THEN (start - stop - stride - 1) \div (-stride) ELSE 0
    IN [i \in 1..n |-> start + (i - 1) * stride]

\* sweep_thread: the `steps` of a ramp, in tenths of a MHz
\* (freq_mhz = step / 10.0).
steps(direction) ==
    IF direction = 1 THEN range(880, 1080, 2) ELSE range(1080, 880, -2)

\* sweep_thread's locals before its first pass; success is the value the
\* last set_freq call of the sweep returned.
SweepLocals_init ==
    [running |-> FALSE, direction |-> 1, step_count |-> 0, step |-> 0,
     success |-> TRUE]

(* ----------------------------- processes ----------------------------- *)

\* subprocess.Popen(cmd, preexec_fn=os.setsid): the Popen object of a new
\* pipeline process group, which is running or has exited already.
Popen(cmd, lives) == [kind |-> "Popen", cmd |-> cmd, alive |-> lives]

\* os.killpg(os.getpgid(h.pid), sig): the whole pipeline of h dies.
killpg(h) == [h EXCEPT !.alive = FALSE]

\* Is the process a handle refers to alive?
Alive(h) == h # None /\ h.alive

\* A handle is overwritten: the pipeline it referred to, if alive, runs on
\* with no reference to it left anywhere.  Nothing in the program can reach
\* such a pipeline again, so only its kind is kept.
Dropped(h) == IF Alive(h) THEN {h.cmd.kind} ELSE {}

Goto(t, l) == pc' = [pc EXCEPT ![t] = l] /\ UNCHANGED ret
Call(t, l, r) == pc' = [pc EXCEPT ![t] = l] /\ ret' = [ret EXCEPT ![t] = r]
Return(t) == pc' = [pc EXCEPT ![t] = ret[t]] /\ ret' = [ret EXCEPT ![t] = "-"]

(* ------------------------------ Init ---------------------------------- *)

\* __main__ before it has looked for a startup sound: no path resolved, no
\* player run, no fx_thread started.
MainLocals_init ==
    [startup_path |-> "", present |-> FALSE, supported |-> FALSE,
     player |-> "none", fx_started |-> 0]

\* __main__ when it has reached bluetooth_server() with no startup sound
\* configured: fx_thread has been started once.
MainLocals_done == [MainLocals_init EXCEPT !.fx_started = 1]

Init ==
    /\ state = OracleBoxState_init
    /\ fx_config = FxConfig_init
    /\ audio_config = AudioConfig_init
    /\ led_config = LedConfig_init
    /\ FX_PRESETS = FX_PRESETS_init
    /\ disk = [config |-> to_config_dict(OracleBoxState_init),
               led |-> LedConfig_init]
    /\ _fx_needs_restart = FALSE
    /\ _fx_proc = None
    /\ _passthrough_proc = None
    /\ fx_lock = Unlocked
    /\ orphans = {}
    /\ pc = [t \in Threads |-> IF t = FxT THEN "tick"
                            ELSE IF t = SweepT THEN "sw_top" ELSE "idle"]
    /\ ret = [t \in Threads |-> "-"]
    /\ fx_local = [enabled |-> FALSE, needs_restart |-> FALSE,
                   sweep_running |-> FALSE, cmd |-> NoCmd]
    /\ fx_was_running = [t \in PlayCtx |-> FALSE]
    /\ output_device = [t \in {FxT, CmdT} |-> NoDevice]
    /\ device = NoDevice
    /\ sw_local = SweepLocals_init
    /\ main_local = MainLocals_done

(* ------------------------ process supervisor -------------------------- *)

\* `if _fx_proc is not None: _stop_fx_proc()`: the test and the call.
StopFxCall(t, r) ==
    IF _fx_proc # None THEN Call(t, "sfx_term", r) ELSE Goto(t, r)

\* `if _passthrough_proc: ...` on entry of _stop_passthrough.
StopPtCall(t, r) ==
    IF _passthrough_proc # None THEN Call(t, "spt_term", r) ELSE Goto(t, r)

\* _stop_fx_proc: SIGTERM to the group of whatever _fx_proc names now; a
\* handle that has become None raises, and the fallbacks raise likewise.
StopFxTerm(t) ==
    /\ pc[t] = "sfx_term"
    /\ IF _fx_proc # None
       THEN _fx_proc' = killpg(_fx_proc) /\ Goto(t, "sfx_kill")
       ELSE UNCHANGED _fx_proc /\ Goto(t, "sfx_clear")
    /\ UNCHANGED <<cfgVars, sw_local, main_local, _fx_needs_restart, orphans,
                   _passthrough_proc, fx_lock, fx_local, fx_was_running,
                   output_device, device>>

\* _stop_fx_proc: after 0.3 s, SIGKILL to the group of _fx_proc as read now.
StopFxKill(t) ==
    /\ pc[t] = "sfx_kill"
    /\ _fx_proc' = IF _fx_proc # None THEN killpg(_fx_proc) ELSE None
    /\ Goto(t, "sfx_clear")
    /\ UNCHANGED <<cfgVars, sw_local, main_local, _fx_needs_restart, orphans,
                   _passthrough_proc, fx_lock, fx_local, fx_was_running,
                   output_device, device>>

\* _stop_fx_proc: `_fx_proc = None`, the 0.5 s sleep, return.
StopFxClear(t) ==
    /\ pc[t] = "sfx_clear"
    /\ _fx_proc' = None
    /\ orphans' = orphans \cup Dropped(_fx_proc)
    /\ Return(t)
    /\ UNCHANGED <<cfgVars, sw_local, main_local, _fx_needs_restart,
                   _passthrough_proc, fx_lock, fx_local, fx_was_running,
                   output_device, device>>

\* _stop_passthrough: SIGTERM to the group of _passthrough_proc as read now.
StopPtTerm(t) ==
    /\ pc[t] = "spt_term"
    /\ IF _passthrough_proc # None
       THEN /\ _passthrough_proc' = killpg(_passthrough_proc)
            /\ Goto(t, "spt_kill")
       ELSE UNCHANGED _passthrough_proc /\ Goto(t, "spt_clear")
    /\ UNCHANGED <<cfgVars, sw_local, main_local, _fx_needs_restart, _fx_proc,
                   orphans, fx_lock, fx_local, fx_was_running, output_device,
                   device>>

\* _stop_passthrough: after 0.3 s, SIGKILL.
StopPtKill(t) ==
    /\ pc[t] = "spt_kill"
    /\ _passthrough_proc' = IF _passthrough_proc # None
                            THEN killpg(_passthrough_proc) ELSE None
    /\ Goto(t, "spt_clear")
    /\ UNCHANGED <<cfgVars, sw_local, main_local, _fx_needs_restart, _fx_proc,
                   orphans, fx_lock, fx_local, fx_was_running, output_device,
                   device>>

\* _stop_passthrough: `_passthrough_proc = None`, the 0.5 s sleep, return.
StopPtClear(t) ==
    /\ pc[t] = "spt_clear"
    /\ _passthrough_proc' = None
    /\ orphans' = orphans \cup Dropped(_passthrough_proc)
    /\ Return(t)
    /\ UNCHANGED <<cfgVars, sw_local, main_local, _fx_needs_restart, _fx_proc,
                   fx_lock, fx_local, fx_was_running, output_device, device>>

\* _start_passthrough, entry: return when a handle is held, else read
\* audio_config.current_device under audio_lock.
StartPtCall(t, r) ==
    IF _passthrough_proc # None
    THEN Goto(t, r) /\ UNCHANGED output_device
    ELSE /\ output_device' =
                [output_device EXCEPT ![t] = audio_config.current_device]
         /\ Call(t, "stp_popen", r)

\* What a spawn attempt can come to: the pipeline runs, Popen raises, or the
\* pipeline exits at once (device busy, capture card missing).
SpawnOutcomes == {"runs", "raises", "exits"}

\* Mutant: _start_passthrough without its `except Exception:`; a Popen that
\* raises ends the calling thread.
StartPtPopen_raise_uncaught(t) ==
    /\ pc[t] = "stp_popen"
    /\ \E outcome \in SpawnOutcomes :
          IF outcome = "raises"
          THEN /\ UNCHANGED _passthrough_proc
               /\ pc' = [pc EXCEPT ![t] = "crashed"] /\ UNCHANGED ret
          ELSE /\ _passthrough_proc' =
                      Popen(passthrough_cmd(output_device[t]), outcome = "runs")
               /\ Return(t)
    /\ orphans' = orphans \cup Dropped(_passthrough_proc)
    /\ output_device' = [output_device EXCEPT ![t] = NoDevice]
    /\ UNCHANGED <<cfgVars, sw_local, main_local, _fx_needs_restart, _fx_proc,
                   fx_lock, fx_local, fx_was_running, device>>

\* _start_passthrough: Popen and the assignment of its result to the handle;
\* on an exception the handle is set to None.  No liveness check follows.
StartPtPopen(t) ==
    /\ pc[t] = "stp_popen"
    /\ \E outcome \in SpawnOutcomes :
          _passthrough_proc' =
              IF outcome = "raises" THEN None
              ELSE Popen(passthrough_cmd(output_device[t]), outcome = "runs")
    /\ orphans' = orphans \cup Dropped(_passthrough_proc)
    /\ output_device' = [output_device EXCEPT ![t] = NoDevice]
    /\ Return(t)
    /\ UNCHANGED <<cfgVars, sw_local, main_local, _fx_needs_restart, _fx_proc,
                   fx_lock, fx_local, fx_was_running, device>>

(* ----------------------------- fx_thread ------------------------------ *)

\* `with fx_lock:` reads of fx_config.enabled and _fx_needs_restart.
FxTickRead ==
    /\ pc[FxT] = "tick"
    /\ fx_lock = Unlocked
    /\ fx_lock' = FxT
    /\ fx_local' = [fx_local EXCEPT !.enabled = fx_config.enabled,
                                    !.needs_restart = _fx_needs_restart]
    /\ Goto(FxT, "tick_clear")
    /\ UNCHANGED <<cfgVars, sw_local, main_local, _fx_needs_restart, _fx_proc,
                   _passthrough_proc, orphans, fx_was_running, output_device,
                   device>>

\* FxTickClear, had the rest of the tick been inside `with fx_lock:`.
FxTickClear_keeps_lock ==
    /\ pc[FxT] = "tick_clear"
    /\ _fx_needs_restart' = FALSE
    /\ Goto(FxT, "read_state")
    /\ UNCHANGED <<cfgVars, sw_local, main_local, _fx_proc, _passthrough_proc,
                   fx_lock, orphans, fx_local, fx_was_running, output_device,
                   device>>

\* `_fx_needs_restart = False`, then the lock is released.
FxTickClear ==
    /\ pc[FxT] = "tick_clear"
    /\ _fx_needs_restart' = FALSE
    /\ fx_lock' = Unlocked
    /\ Goto(FxT, "read_state")
    /\ UNCHANGED <<cfgVars, sw_local, main_local, _fx_proc, _passthrough_proc,
                   orphans, fx_local, fx_was_running, output_device, device>>

\* Mutant: the branch taken with the test of sweep_running left out.
FxBranch_ignores_running(sweep_running, enabled) ==
    IF ~enabled THEN "d_fx" ELSE "e_pt"

\* The branch fx_thread takes on its snapshot.
FxBranch(sweep_running, enabled) ==
    IF ~sweep_running THEN "nr_fx" ELSE IF ~enabled THEN "d_fx" ELSE "e_pt"

\* `with state_lock: sweep_running = state.running`, and the branch.
FxReadState ==
    /\ pc[FxT] = "read_state"
    /\ fx_local' = [fx_local EXCEPT !.sweep_running = state.running]
    /\ Goto(FxT, FxBranch(state.running, fx_local.enabled))
    /\ UNCHANGED <<cfgVars, sw_local, main_local, _fx_needs_restart, _fx_proc,
                   _passthrough_proc, fx_lock, orphans, fx_was_running,
                   output_device, device>>

\* Sweep not running: stop the effects pipeline if one is held.
FxIdleStopFx ==
    /\ pc[FxT] = "nr_fx"
    /\ StopFxCall(FxT, "nr_pt")
    /\ UNCHANGED <<cfgVars, sw_local, main_local, _fx_needs_restart, _fx_proc,
                   _passthrough_proc, fx_lock, orphans, fx_local,
                   fx_was_running, output_device, device>>

\* Sweep not running: stop the passthrough if one is held; sleep.
FxIdleStopPt ==
    /\ pc[FxT] = "nr_pt"
    /\ StopPtCall(FxT, "sleep")
    /\ UNCHANGED <<cfgVars, sw_local, main_local, _fx_needs_restart, _fx_proc,
                   _passthrough_proc, fx_lock, orphans, fx_local,
                   fx_was_running, output_device, device>>

\* Effects disabled: stop the effects pipeline if one is held.
FxDisabledStopFx ==
    /\ pc[FxT] = "d_fx"
    /\ StopFxCall(FxT, "d_pt")
    /\ UNCHANGED <<cfgVars, sw_local, main_local, _fx_needs_restart, _fx_proc,
                   _passthrough_proc, fx_lock, orphans, fx_local,
                   fx_was_running, output_device, device>>

\* Effects disabled: start the passthrough unless one is held; sleep.
FxDisabledStartPt ==
    /\ pc[FxT] = "d_pt"
    /\ StartPtCall(FxT, "sleep")
    /\ UNCHANGED <<cfgVars, sw_local, main_local, _fx_needs_restart, _fx_proc,
                   _passthrough_proc, fx_lock, orphans, fx_local,
                   fx_was_running, device>>

\* Mutant: the effects branch without the stop of the passthrough.
FxEnabledStopPt_skips_stop ==
    /\ pc[FxT] = "e_pt"
    /\ Goto(FxT, "e_chk")
    /\ UNCHANGED <<cfgVars, sw_local, main_local, _fx_needs_restart, _fx_proc,
                   _passthrough_proc, fx_lock, orphans, fx_local,
                   fx_was_running, output_device, device>>

\* Effects enabled: stop the passthrough if one is held (then sleep 1 s).
FxEnabledStopPt ==
    /\ pc[FxT] = "e_pt"
    /\ StopPtCall(FxT, "e_chk")
    /\ UNCHANGED <<cfgVars, sw_local, main_local, _fx_needs_restart, _fx_proc,
                   _passthrough_proc, fx_lock, orphans, fx_local,
                   fx_was_running, output_device, device>>

\* `if _fx_proc is None or needs_restart:` and the stop of a held pipeline.
FxEnabledCheck ==
    /\ pc[FxT] = "e_chk"
    /\ IF _fx_proc = None \/ fx_local.needs_restart
       THEN StopFxCall(FxT, "e_build")
       ELSE Goto(FxT, "sleep")
    /\ UNCHANGED <<cfgVars, sw_local, main_local, _fx_needs_restart, _fx_proc,
                   _passthrough_proc, fx_lock, orphans, fx_local,
                   fx_was_running, output_device, device>>

\* `cmd = build_sox_cmd_from_fx()`: fx_config read under fx_lock, the device
\* under audio_lock; no command when effects are disabled by now.
FxBuild ==
    /\ pc[FxT] = "e_build"
    /\ fx_lock = Unlocked
    /\ LET cmd == build_sox_cmd_from_fx(fx_config, audio_config.current_device)
       IN /\ fx_local' = [fx_local EXCEPT !.cmd = cmd]
          /\ Goto(FxT, IF cmd = NoCmd THEN "sleep" ELSE "e_popen")
    /\ UNCHANGED <<cfgVars, sw_local, main_local, _fx_needs_restart, _fx_proc,
                   _passthrough_proc, fx_lock, orphans, fx_was_running,
                   output_device, device>>

\* Mutant: the effects pipeline started without the liveness check.
FxPopen_no_poll ==
    /\ pc[FxT] = "e_popen"
    /\ \E outcome \in SpawnOutcomes :
          _fx_proc' = IF outcome = "raises" THEN None
                      ELSE Popen(fx_local.cmd, outcome = "runs")
    /\ orphans' = orphans \cup Dropped(_fx_proc)
    /\ fx_local' = [fx_local EXCEPT !.cmd = NoCmd]
    /\ Goto(FxT, "sleep")
    /\ UNCHANGED <<cfgVars, sw_local, main_local, _fx_needs_restart,
                   _passthrough_proc, fx_lock, fx_was_running, output_device,
                   device>>

\* Popen of the effects pipeline, its assignment to _fx_proc, and the
\* liveness check 0.1 s later (debug.FX_STATE_CHANGES is True): a pipeline
\* that has exited, or a raised exception, leaves _fx_proc None.
FxPopen ==
    /\ pc[FxT] = "e_popen"
    /\ \E outcome \in SpawnOutcomes :
          _fx_proc' = IF outcome = "runs" THEN Popen(fx_local.cmd, TRUE)
                      ELSE None
    /\ orphans' = orphans \cup Dropped(_fx_proc)
    /\ fx_local' = [fx_local EXCEPT !.cmd = NoCmd]
    /\ Goto(FxT, "sleep")
    /\ UNCHANGED <<cfgVars, sw_local, main_local, _fx_needs_restart,
                   _passthrough_proc, fx_lock, fx_was_running, output_device,
                   device>>

\* `time.sleep(0.2)` (1.0 after a failed start) and the next iteration.
FxSleep ==
    /\ pc[FxT] = "sleep"
    /\ Goto(FxT, "tick")
    /\ UNCHANGED <<cfgVars, sw_local, main_local, _fx_needs_restart, _fx_proc,
                   _passthrough_proc, fx_lock, orphans, fx_local,
                   fx_was_running, output_device, device>>

FxThread ==
    \/ FxSleep
    \/ FxTickRead \/ FxTickClear \/ FxReadState
    \/ FxIdleStopFx \/ FxIdleStopPt
    \/ FxDisabledStopFx \/ FxDisabledStartPt
    \/ FxEnabledStopPt \/ FxEnabledCheck \/ FxBuild \/ FxPopen

(* ----------------------------- play_sound ----------------------------- *)

\* `fx_was_running = (_fx_proc is not None)`.
PlayCheckFx(t) ==
    /\ pc[t] = "ps_check"
    /\ fx_was_running' = [fx_was_running EXCEPT ![t] = (_fx_proc # None)]
    /\ Goto(t, IF _fx_proc # None THEN "ps_stop" ELSE "ps_popen")
    /\ UNCHANGED <<cfgVars, sw_local, main_local, _fx_needs_restart, _fx_proc,
                   _passthrough_proc, fx_lock, orphans, fx_local,
                   output_device, device>>

\* `if fx_was_running: _stop_fx_proc()`.
PlayStopFx(t) ==
    /\ pc[t] = "ps_stop"
    /\ StopFxCall(t, "ps_popen")
    /\ UNCHANGED <<cfgVars, sw_local, main_local, _fx_needs_restart, _fx_proc,
                   _passthrough_proc, fx_lock, orphans, fx_local,
                   fx_was_running, output_device, device>>

\* Mutant: a `finally:` that leaves the restart flag as it is.
PlayFinally_keeps_flag(t) ==
    /\ UNCHANGED _fx_needs_restart
    /\ fx_was_running' = [fx_was_running EXCEPT ![t] = FALSE]
    /\ Goto(t, "idle")

\* The `finally:` of play_sound, and its return.
PlayFinally(t) ==
    /\ _fx_needs_restart' = (fx_was_running[t] \/ _fx_needs_restart)
    /\ fx_was_running' = [fx_was_running EXCEPT ![t] = FALSE]
    /\ Goto(t, "idle")

\* `proc = subprocess.Popen(cmd)`: the player starts, or Popen raises
\* (player not installed) and the `finally:` runs at once.
PlayPopen(t) ==
    /\ pc[t] = "ps_popen"
    /\ \/ Goto(t, "ps_wait") /\ UNCHANGED <<_fx_needs_restart, fx_was_running>>
       \/ PlayFinally(t)
    /\ UNCHANGED <<cfgVars, sw_local, main_local, _fx_proc, _passthrough_proc,
                   fx_lock, orphans, fx_local, output_device, device>>

\* The player exits, `proc.wait()` returns and the `finally:` runs.
PlayWait(t) ==
    /\ pc[t] = "ps_wait"
    /\ PlayFinally(t)
    /\ UNCHANGED <<cfgVars, sw_local, main_local, _fx_proc, _passthrough_proc,
                   fx_lock, orphans, fx_local, output_device, device>>

\* A thread running play_sound is created when its turn comes in the order
\* of the thread table.
FreePlayThread(t) ==
    /\ t \in PlayThreads
    /\ pc[t] = "idle"
    /\ \A u \in PlayThreads : pc[u] = "idle" => t[2] <= u[2]

\* `threading.Thread(target=play_sound, args=(sound,)).start()`
SpawnPlayThread(t) ==
    /\ FreePlayThread(t)
    /\ Goto(t, "ps_check")
    /\ UNCHANGED <<cfgVars, sw_local, main_local, _fx_needs_restart, _fx_proc,
                   _passthrough_proc, fx_lock, orphans, fx_local,
                   fx_was_running, output_device, device>>

\* _rempod_trigger with an alert sound present.
RemPodTrigger(t) == SpawnPlayThread(t)

\* _musicbox_trigger with a sound present.
MusicBoxTrigger(t) == SpawnPlayThread(t)

(* --------------------------- handle_command --------------------------- *)

\* START: the `with state_lock:` block, save_to_config included.
CmdStart ==
    /\ pc[CmdT] = "idle"
    /\ state' = [state EXCEPT !.running = TRUE]
    /\ save_to_config(state')
    /\ UNCHANGED <<fx_config, audio_config, led_config, _fx_needs_restart,
                   sw_local, main_local, FX_PRESETS, _fx_proc,
                   _passthrough_proc, fx_lock, orphans, pc, ret, fx_local,
                   fx_was_running, output_device, device>>

\* STOP: the `with state_lock:` block, save_to_config included.
CmdStop ==
    /\ pc[CmdT] = "idle"
    /\ state' = [state EXCEPT !.running = FALSE]
    /\ save_to_config(state')
    /\ UNCHANGED <<fx_config, audio_config, led_config, _fx_needs_restart,
                   sw_local, main_local, FX_PRESETS, _fx_proc,
                   _passthrough_proc, fx_lock, orphans, pc, ret, fx_local,
                   fx_was_running, output_device, device>>

\* FX ENABLE: the `with fx_lock:` block.
CmdFxEnable ==
    /\ pc[CmdT] = "idle"
    /\ fx_lock = Unlocked
    /\ fx_config' = [fx_config EXCEPT !.enabled = TRUE]
    /\ Goto(CmdT, "cmd_flag")
    /\ UNCHANGED <<led_config, disk, FX_PRESETS, sw_local, main_local>>
    /\ UNCHANGED <<state, audio_config, _fx_needs_restart, _fx_proc,
                   _passthrough_proc, fx_lock, orphans, fx_local,
                   fx_was_running, output_device, device>>

\* FX DISABLE: the `with fx_lock:` block.
CmdFxDisable ==
    /\ pc[CmdT] = "idle"
    /\ fx_lock = Unlocked
    /\ fx_config' = [fx_config EXCEPT !.enabled = FALSE]
    /\ Goto(CmdT, "cmd_flag")
    /\ UNCHANGED <<led_config, disk, FX_PRESETS, sw_local, main_local>>
    /\ UNCHANGED <<state, audio_config, _fx_needs_restart, _fx_proc,
                   _passthrough_proc, fx_lock, orphans, fx_local,
                   fx_was_running, output_device, device>>

\* CmdFxSet, had the error return inside `with fx_lock:` left the lock held.
CmdFxSet_error_keeps_lock(param, value) ==
    /\ pc[CmdT] = "idle"
    /\ fx_lock = Unlocked
    /\ IF FxSetAccepts(param, value)
       THEN /\ fx_config' = FxSetApply(fx_config, param, value)
            /\ Goto(CmdT, "cmd_flag")
            /\ UNCHANGED fx_lock
       ELSE fx_lock' = CmdT /\ UNCHANGED <<fx_config, pc, ret>>
    /\ UNCHANGED <<led_config, disk, FX_PRESETS, sw_local, main_local>>
    /\ UNCHANGED <<state, audio_config, _fx_needs_restart, _fx_proc,
                   _passthrough_proc, orphans, fx_local, fx_was_running,
                   output_device, device>>

\* FX SET <param> <value>: the `with fx_lock:` block; a rejected value
\* returns an error from inside it.
CmdFxSet(param, value) ==
    /\ pc[CmdT] = "idle"
    /\ fx_lock = Unlocked
    /\ IF FxSetAccepts(param, value)
       THEN /\ fx_config' = FxSetApply(fx_config, param, value)
            /\ Goto(CmdT, "cmd_flag")
       ELSE UNCHANGED <<fx_config, pc, ret>>
    /\ UNCHANGED <<led_config, disk, FX_PRESETS, sw_local, main_local>>
    /\ UNCHANGED <<state, audio_config, _fx_needs_restart, _fx_proc,
                   _passthrough_proc, fx_lock, orphans, fx_local,
                   fx_was_running, output_device, device>>

\* FX PRESET SET <name>: the `with fx_lock:` block.
CmdFxPresetSet(name) ==
    /\ pc[CmdT] = "idle"
    /\ fx_lock = Unlocked
    /\ IF name \in DOMAIN FX_PRESETS
       THEN /\ fx_config' = apply_preset(FX_PRESETS, fx_config, name)
            /\ Goto(CmdT, "cmd_flag")
       ELSE UNCHANGED <<fx_config, pc, ret>>
    /\ UNCHANGED <<led_config, disk, FX_PRESETS, sw_local, main_local>>
    /\ UNCHANGED <<state, audio_config, _fx_needs_restart, _fx_proc,
                   _passthrough_proc, fx_lock, orphans, fx_local,
                   fx_was_running, output_device, device>>

\* `_fx_needs_restart = True` after the lock is released, and the return.
CmdFlagRestart ==
    /\ pc[CmdT] = "cmd_flag"
    /\ _fx_needs_restart' = TRUE
    /\ Goto(CmdT, "idle")
    /\ UNCHANGED <<cfgVars, sw_local, main_local, _fx_proc, _passthrough_proc,
                   fx_lock, orphans, fx_local, fx_was_running, output_device,
                   device>>

\* BT_AUDIO CONNECT <mac> (connection made): the `with audio_lock:` block,
\* then the call of set_audio_output_device(sink).
CmdBtAudioConnect ==
    /\ pc[CmdT] = "idle"
    /\ audio_config' = [audio_config EXCEPT !.bt_device = BtMac,
                                            !.bt_connected = TRUE,
                                            !.current_device = BtSink]
    /\ device' = BtSink
    /\ Goto(CmdT, "sad_set")
    /\ UNCHANGED <<led_config, disk, FX_PRESETS, sw_local, main_local>>
    /\ UNCHANGED <<state, fx_config, _fx_needs_restart, _fx_proc,
                   _passthrough_proc, fx_lock, orphans, fx_local,
                   fx_was_running, output_device>>

\* BT_AUDIO STREAM_PHONE: an error return when no phone can be connected
\* or no audio sink appears; else the `with audio_lock:` block, then the
\* call of set_audio_output_device(sink).
CmdBtAudioStreamPhone ==
    /\ pc[CmdT] = "idle"
    /\ \E streaming \in BOOLEAN :
          IF streaming
          THEN /\ audio_config' = [audio_config EXCEPT
                                       !.bt_device = PhoneMac,
                                       !.bt_connected = TRUE,
                                       !.current_device = BtSink]
               /\ device' = BtSink
               /\ Goto(CmdT, "sad_set")
          ELSE UNCHANGED <<audio_config, device, pc, ret>>
    /\ UNCHANGED <<led_config, disk, FX_PRESETS, sw_local, main_local>>
    /\ UNCHANGED <<state, fx_config, _fx_needs_restart, _fx_proc,
                   _passthrough_proc, fx_lock, orphans, fx_local,
                   fx_was_running, output_device>>

\* CmdBtAudioDisconnect, had it left current_device on the Bluetooth sink.
CmdBtAudioDisconnect_keeps_sink ==
    /\ pc[CmdT] = "idle"
    /\ IF audio_config.bt_device = NoDevice
       THEN UNCHANGED <<audio_config, device, pc, ret>>
       ELSE /\ audio_config' =
                   [audio_config EXCEPT !.bt_device = NoDevice,
                                        !.bt_connected = FALSE]
            /\ device' = audio_config.current_device
            /\ Goto(CmdT, "sad_set")
    /\ UNCHANGED <<led_config, disk, FX_PRESETS, sw_local, main_local>>
    /\ UNCHANGED <<state, fx_config, _fx_needs_restart, _fx_proc,
                   _passthrough_proc, fx_lock, orphans, fx_local,
                   fx_was_running, output_device>>

\* BT_AUDIO DISCONNECT: an error when no device is connected; else the
\* `with audio_lock:` block and set_audio_output_device(default_device).
CmdBtAudioDisconnect ==
    /\ pc[CmdT] = "idle"
    /\ IF audio_config.bt_device = NoDevice
       THEN UNCHANGED <<audio_config, device, pc, ret>>
       ELSE /\ audio_config' =
                   [audio_config EXCEPT !.bt_device = NoDevice,
                                        !.bt_connected = FALSE,
                                        !.current_device =
                                            audio_config.default_device]
            /\ device' = audio_config.default_device
            /\ Goto(CmdT, "sad_set")
    /\ UNCHANGED <<led_config, disk, FX_PRESETS, sw_local, main_local>>
    /\ UNCHANGED <<state, fx_config, _fx_needs_restart, _fx_proc,
                   _passthrough_proc, fx_lock, orphans, fx_local,
                   fx_was_running, output_device>>

\* set_audio_output_device: `audio_config.current_device = device`.
SetDeviceWrite ==
    /\ pc[CmdT] = "sad_set"
    /\ audio_config' = [audio_config EXCEPT !.current_device = device]
    /\ Goto(CmdT, "sad_flag")
    /\ UNCHANGED <<led_config, disk, FX_PRESETS, sw_local, main_local>>
    /\ UNCHANGED <<state, fx_config, _fx_needs_restart, _fx_proc,
                   _passthrough_proc, fx_lock, orphans, fx_local,
                   fx_was_running, output_device, device>>

\* set_audio_output_device: `_fx_needs_restart = True`.
SetDeviceFlag ==
    /\ pc[CmdT] = "sad_flag"
    /\ _fx_needs_restart' = TRUE
    /\ Goto(CmdT, "sad_chk")
    /\ UNCHANGED <<cfgVars, sw_local, main_local, _fx_proc, _passthrough_proc,
                   fx_lock, orphans, fx_local, fx_was_running, output_device,
                   device>>

\* set_audio_output_device: `was_running = _passthrough_proc is not None`.
SetDeviceCheck ==
    /\ pc[CmdT] = "sad_chk"
    /\ Goto(CmdT, IF _passthrough_proc # None THEN "sad_stop" ELSE "idle")
    /\ device' = IF _passthrough_proc # None THEN device ELSE NoDevice
    /\ UNCHANGED <<cfgVars, sw_local, main_local, _fx_needs_restart, _fx_proc,
                   _passthrough_proc, fx_lock, orphans, fx_local,
                   fx_was_running, output_device>>

\* set_audio_output_device: `_stop_passthrough()` of a running passthrough.
SetDeviceStop ==
    /\ pc[CmdT] = "sad_stop"
    /\ StopPtCall(CmdT, "sad_start")
    /\ UNCHANGED <<cfgVars, sw_local, main_local, _fx_needs_restart, _fx_proc,
                   _passthrough_proc, fx_lock, orphans, fx_local,
                   fx_was_running, output_device, device>>

\* set_audio_output_device: after 0.3 s, `_start_passthrough()`.
SetDeviceStart ==
    /\ pc[CmdT] = "sad_start"
    /\ StartPtCall(CmdT, "idle")
    /\ device' = NoDevice
    /\ UNCHANGED <<cfgVars, sw_local, main_local, _fx_needs_restart, _fx_proc,
                   _passthrough_proc, fx_lock, orphans, fx_local,
                   fx_was_running>>

FreeTimer(t) ==
    /\ t \in TimerThreads
    /\ pc[t] = "idle"
    /\ \A u \in TimerThreads : pc[u] = "idle" => t[2] <= u[2]

\* FM TEST <freq> with the tuner answering: `_start_passthrough()`.
CmdFmTest ==
    /\ pc[CmdT] = "idle"
    /\ \E t \in TimerThreads : FreeTimer(t)
    /\ StartPtCall(CmdT, "fm_timer")
    /\ UNCHANGED <<cfgVars, sw_local, main_local, _fx_needs_restart, _fx_proc,
                   _passthrough_proc, fx_lock, orphans, fx_local,
                   fx_was_running, device>>

\* FM TEST: `threading.Timer(10.0, _stop_passthrough).start()`.
FmTestTimer(t) ==
    /\ pc[CmdT] = "fm_timer"
    /\ FreeTimer(t)
    /\ pc' = [pc EXCEPT ![CmdT] = "idle", ![t] = "tm_wait"]
    /\ UNCHANGED <<cfgVars, sw_local, main_local, _fx_needs_restart, _fx_proc,
                   _passthrough_proc, fx_lock, orphans, ret, fx_local,
                   fx_was_running, output_device, device>>

\* The timer expires after 10 s and its thread calls _stop_passthrough.
TimerFires(t) ==
    /\ pc[t] = "tm_wait"
    /\ StopPtCall(t, "idle")
    /\ UNCHANGED <<cfgVars, sw_local, main_local, _fx_needs_restart, _fx_proc,
                   _passthrough_proc, fx_lock, orphans, fx_local,
                   fx_was_running, output_device, device>>

\* SOUND PLAY <name> with the file present: play_sound(name).
CmdSoundPlay ==
    /\ pc[CmdT] = "idle"
    /\ Goto(CmdT, "ps_check")
    /\ UNCHANGED <<cfgVars, sw_local, main_local, _fx_needs_restart, _fx_proc,
                   _passthrough_proc, fx_lock, orphans, fx_local,
                   fx_was_running, output_device, device>>

(* ---------------------- configuration commands ------------------------ *)

Digits == <<"0", "1", "2", "3", "4", "5", "6", "7", "8", "9">>
IsDigit(c) == \E i \in 1..Len(Digits) : Digits[i] = c
DigitVal(c) == (CHOOSE i \in 1..Len(Digits) : Digits[i] = c) - 1

RECURSIVE Decimal(_)
Decimal(ds) ==
    IF ds = <<>> THEN 0
    ELSE 10 * Decimal(SubSeq(ds, 1, Len(ds) - 1)) + DigitVal(ds[Len(ds)])

\* What `int(tok)` comes to when it raises ValueError.
ValueError == [ok |-> FALSE, val |-> 0]

\* Python's int() on a token: an optional sign and decimal digits, or
\* ValueError.
int(tok) ==
    LET signed == tok # <<>> /\ tok[1] \in {"-", "+"}
        ds == IF signed THEN Tail(tok) ELSE tok
    IN  IF ds = <<>> \/ \E i \in 1..Len(ds) : ~IsDigit(ds[i])
        THEN ValueError
        ELSE [ok |-> TRUE,
              val |-> IF signed /\ tok[1] = "-" THEN -Decimal(ds)
                      ELSE Decimal(ds)]

Abs(x) == IF x < 0 THEN -x ELSE x

\* closest_speed_index: the first index whose preset is nearest to ms.
closest_speed_index(ms) ==
    LET diff(i) == Abs(ms - SWEEP_SPEEDS_MS[i + 1])
        better == {i \in 0..(Len(SWEEP_SPEEDS_MS) - 1) : diff(i) < 999999}
    IN  IF better = {} THEN 0
        ELSE CHOOSE i \in better :
                \A j \in better :
                    diff(i) < diff(j) \/ (diff(i) = diff(j) /\ i <= j)

\* A configuration file that does not exist.
NoFile == [kind |-> "absent"]

\* What config.json may hold when the process starts: nothing, what an
\* earlier run saved, a file that carries a running flag, and a file whose
\* speed is not a number.
ConfigFiles ==
    {NoFile,
     [speed_ms |-> T_100, direction |-> "up", running |-> FALSE],
     [speed_ms |-> T_300, direction |-> "down", running |-> TRUE],
     [speed_ms |-> T_abc, direction |-> "down", running |-> TRUE]}

\* What fx_config.json may hold when the process starts.
FxFiles ==
    {NoFile,
     [FxConfig_init EXCEPT !.enabled = TRUE],
     [FxConfig_init EXCEPT !.enabled = TRUE, !.preset = "CUSTOM",
                           !.bp_low = 50, !.bp_high = 5100]}

\* load_from_config, had it taken the running flag from the file.
load_from_config_keeps_running(st, file) ==
    IF file = NoFile \/ ~int(file.speed_ms).ok THEN st
    ELSE [speed_index |-> closest_speed_index(int(file.speed_ms).val),
          direction |-> IF file.direction = "up" THEN 1 ELSE -1,
          running |-> file.running]

\* OracleBoxState.load_from_config: a missing file and a value that raises
\* leave the object as __init__ made it; running is assigned False.
load_from_config(st, file) ==
    IF file = NoFile \/ ~int(file.speed_ms).ok THEN st
    ELSE [speed_index |-> closest_speed_index(int(file.speed_ms).val),
          direction |-> IF file.direction = "up" THEN 1 ELSE -1,
          running |-> FALSE]

\* FxConfig.load: every field but enabled is taken from the file.
FxConfig_load(fx, file) ==
    IF file = NoFile THEN fx
    ELSE [file EXCEPT !.enabled = fx.enabled]

\* The state after construction when the configuration files are read:
\* Init with state and fx_config as the two load calls leave them.
InitBoot ==
    \E file \in ConfigFiles, fxfile \in FxFiles :
        /\ state = load_from_config(OracleBoxState_init, file)
        /\ fx_config = FxConfig_load(FxConfig_init, fxfile)
        /\ audio_config = AudioConfig_init
        /\ led_config = LedConfig_init
        /\ FX_PRESETS = FX_PRESETS_init
        /\ disk = [config |-> file, led |-> LedConfig_init]
        /\ _fx_needs_restart = FALSE
        /\ _fx_proc = None
        /\ _passthrough_proc = None
        /\ fx_lock = Unlocked
        /\ orphans = {}
        /\ pc = [t \in Threads |-> IF t = FxT THEN "tick"
                                ELSE IF t = SweepT THEN "sw_top" ELSE "idle"]
        /\ ret = [t \in Threads |-> "-"]
        /\ fx_local = [enabled |-> FALSE, needs_restart |-> FALSE,
                       sweep_running |-> FALSE, cmd |-> NoCmd]
        /\ fx_was_running = [t \in PlayCtx |-> FALSE]
        /\ output_device = [t \in {FxT, CmdT} |-> NoDevice]
        /\ device = NoDevice
        /\ sw_local = SweepLocals_init
        /\ main_local = MainLocals_done

\* The handler is at a `return "OK ..."` or a `return "ERR ..."`.
ReplyOk == Goto(CmdT, "reply_ok")
ReplyErr == Goto(CmdT, "reply_err")

\* SPEED <ms>
CmdSpeed(tok) ==
    /\ pc[CmdT] = "idle"
    /\ IF ~int(tok).ok
       THEN ReplyErr /\ UNCHANGED <<state, disk>>
       ELSE /\ state' = [state EXCEPT
                            !.speed_index = closest_speed_index(int(tok).val)]
            /\ save_to_config(state')
            /\ ReplyOk
    /\ UNCHANGED <<fx_config, audio_config, led_config, _fx_needs_restart,
                   sw_local, main_local, FX_PRESETS, _fx_proc,
                   _passthrough_proc, fx_lock, orphans, fx_local,
                   fx_was_running, output_device, device>>

\* A step of FASTER or SLOWER: the `with state_lock:` block, which saves
\* only when the index moves, up to `return "OK SPEED " + str(ms)` with ms
\* read inside the block.
SpeedStep(moves, by, label) ==
    /\ pc[CmdT] = "idle"
    /\ IF moves
       THEN /\ state' = [state EXCEPT !.speed_index = @ + by]
            /\ save_to_config(state')
       ELSE UNCHANGED <<state, disk>>
    /\ Goto(CmdT, label)
    /\ UNCHANGED <<fx_config, audio_config, led_config, _fx_needs_restart,
                   sw_local, main_local, FX_PRESETS, _fx_proc,
                   _passthrough_proc, fx_lock, orphans, fx_local,
                   fx_was_running, output_device, device>>

\* CmdFaster, had it stepped without `if state.speed_index > 0`.
CmdFaster_unguarded == SpeedStep(TRUE, -1, "faster_ok")

\* FASTER
CmdFaster == SpeedStep(state.speed_index > 0, -1, "faster_ok")

\* SLOWER
CmdSlower ==
    SpeedStep(state.speed_index < Len(SWEEP_SPEEDS_MS) - 1, 1, "slower_ok")

\* Mutant: DIR with the direction assigned before the value is looked at.
CmdDir_assigns_first(sub) ==
    /\ pc[CmdT] = "idle"
    /\ state' = [state EXCEPT !.direction = IF sub = "UP" THEN 1
                                            ELSE IF sub = "TOGGLE"
                                            THEN -state.direction ELSE -1]
    /\ IF sub \in {"UP", "DOWN", "TOGGLE"}
       THEN save_to_config(state') /\ ReplyOk
       ELSE ReplyErr /\ UNCHANGED disk
    /\ UNCHANGED <<fx_config, audio_config, led_config, _fx_needs_restart,
                   sw_local, main_local, FX_PRESETS, _fx_proc,
                   _passthrough_proc, fx_lock, orphans, fx_local,
                   fx_was_running, output_device, device>>

\* DIR <UP|DOWN|TOGGLE>: the `with state_lock:` block; any other value
\* returns from inside it before anything is assigned.
CmdDir(sub) ==
    /\ pc[CmdT] = "idle"
    /\ IF sub \in {"UP", "DOWN", "TOGGLE"}
       THEN /\ state' = [state EXCEPT
                            !.direction = CASE sub = "UP" -> 1
                                            [] sub = "DOWN" -> -1
                                            [] sub = "TOGGLE" ->
                                                  -state.direction]
            /\ save_to_config(state')
            /\ ReplyOk
       ELSE ReplyErr /\ UNCHANGED <<state, disk>>
    /\ UNCHANGED <<fx_config, audio_config, led_config, _fx_needs_restart,
                   sw_local, main_local, FX_PRESETS, _fx_proc,
                   _passthrough_proc, fx_lock, orphans, fx_local,
                   fx_was_running, output_device, device>>

\* The attributes of led_config SWEEP_CFG and BOX_CFG work on.
SweepFields ==
    [MIN |-> "sweep_min_brightness", MAX |-> "sweep_max_brightness",
     SPEED |-> "sweep_speed"]
BoxFields ==
    [MIN |-> "box_min_brightness", MAX |-> "box_max_brightness",
     SPEED |-> "box_speed"]

\* SWEEP_CFG / BOX_CFG: the checks that return an error, all of them before
\* the assignment.
LedCfgRejects(fields, field, tok) ==
    LET value == int(tok).val
    IN  \/ ~int(tok).ok
        \/ /\ field = "MIN"
           /\ \/ ~(0 <= value /\ value <= 255)
              \/ value > led_config[fields.MAX]
        \/ /\ field = "MAX"
           /\ \/ ~(0 <= value /\ value <= 255)
              \/ value < led_config[fields.MIN]
        \/ field = "SPEED" /\ ~(1 <= value /\ value <= 10)
        \/ field \notin {"MIN", "MAX", "SPEED"}

\* SWEEP_CFG / BOX_CFG <field> <value>: `old = ...`, the assignment and
\* `led_config.save()`.  save() catches its own exceptions, so the
\* `except Exception:` around the call (roll back, "ERR could not save
\* config") never runs and the handler returns "OK".
CmdLedCfg(fields, field, tok) ==
    /\ pc[CmdT] = "idle"
    /\ IF LedCfgRejects(fields, field, tok)
       THEN ReplyErr /\ UNCHANGED <<led_config, disk>>
       ELSE /\ led_config' =
                   [led_config EXCEPT ![fields[field]] = int(tok).val]
            /\ LedConfig_save(led_config')
            /\ ReplyOk
    /\ UNCHANGED <<state, fx_config, audio_config, _fx_needs_restart, sw_local,
                   main_local, FX_PRESETS, _fx_proc, _passthrough_proc,
                   fx_lock, orphans, fx_local, fx_was_running, output_device,
                   device>>

\* SWEEP_CFG <field> <value>
CmdSweepCfg(field, tok) == CmdLedCfg(SweepFields, field, tok)

\* BOX_CFG <field> <value>
CmdBoxCfg(field, tok) == CmdLedCfg(BoxFields, field, tok)

\* FX SET <param> <value>, from the tokens of the line: `int(val_str)`,
\* then the `with fx_lock:` block.
CmdFxSetArgs(param, tok) ==
    IF int(tok).ok /\ FxSetAccepts(param, int(tok).val)
    THEN CmdFxSet(param, int(tok).val)
    ELSE /\ pc[CmdT] = "idle"
         /\ fx_lock = Unlocked \/ ~int(tok).ok
         /\ ReplyErr
         /\ UNCHANGED <<cfgVars, sw_local, main_local, _fx_needs_restart,
                        _fx_proc, _passthrough_proc, fx_lock, orphans,
                        fx_local, fx_was_running, output_device, device>>

\* FX PRESET SAVE <name> <category> <bp_low> <bp_high> <contrast> <reverb>
\* <gain>: the five `int(...)`, the new entry of FX_PRESETS, then the
\* `with fx_lock:` block that applies it.
CmdFxPresetSave(name, a) ==
    /\ pc[CmdT] = "idle"
    /\ IF \A i \in 1..5 : int(a[i]).ok
       THEN LET new_preset ==
                    [bp_low |-> int(a[1]).val, bp_high |-> int(a[2]).val,
                     reverb_room |-> int(a[4]).val, reverb_damping |-> 40,
                     reverb_wet |-> 100, reverb_dry |-> 55,
                     contrast_amount |-> int(a[3]).val, pre_gain_db |-> -6,
                     post_gain_db |-> int(a[5]).val]
            IN /\ fx_lock = Unlocked
               /\ FX_PRESETS' =
                     [n \in DOMAIN FX_PRESETS \cup {name} |->
                         IF n = name THEN new_preset ELSE FX_PRESETS[n]]
               /\ fx_config' = apply_preset(FX_PRESETS', fx_config, name)
               /\ Goto(CmdT, "cmd_flag")
       ELSE ReplyErr /\ UNCHANGED <<FX_PRESETS, fx_config>>
    /\ UNCHANGED <<state, audio_config, led_config, disk, sw_local, main_local,
                   _fx_needs_restart, _fx_proc, _passthrough_proc, fx_lock,
                   orphans, fx_local, fx_was_running, output_device, device>>

\* `client_sock.send((response + "\n").encode("utf-8"))`
SendReply ==
    /\ pc[CmdT] \in {"reply_ok", "reply_err", "faster_ok", "slower_ok"}
    /\ Goto(CmdT, "idle")
    /\ UNCHANGED <<cfgVars, sw_local, main_local, _fx_needs_restart, _fx_proc,
                   _passthrough_proc, fx_lock, orphans, fx_local,
                   fx_was_running, output_device, device>>

(* ---------------------------- sweep_thread ---------------------------- *)

\* Top of `while True`: running and direction are read in one
\* `with state_lock:` block; a ramp starts with step_count = 0 and the steps
\* of the direction just read.
SweepSnapshot ==
    /\ pc[SweepT] = "sw_top"
    /\ sw_local' = [sw_local EXCEPT
                       !.running = state.running,
                       !.direction = state.direction,
                       !.step_count = IF state.running THEN 0 ELSE @]
    /\ Goto(SweepT, IF state.running THEN "sw_step" ELSE "sw_idle")
    /\ UNCHANGED <<cfgVars, main_local, _fx_needs_restart, _fx_proc,
                   _passthrough_proc, fx_lock, orphans, fx_local,
                   fx_was_running, output_device, device>>

\* SweepIdleSleep, had the idle loop asked fx_thread for a restart.
SweepIdleSleep_requests_restart ==
    /\ pc[SweepT] = "sw_idle"
    /\ Goto(SweepT, "sw_top")
    /\ _fx_needs_restart' = TRUE
    /\ UNCHANGED <<cfgVars, sw_local, main_local, _fx_proc, _passthrough_proc,
                   fx_lock, orphans, fx_local, fx_was_running, output_device,
                   device>>

\* `if not running: time.sleep(0.1); continue`.
SweepIdleSleep ==
    /\ pc[SweepT] = "sw_idle"
    /\ Goto(SweepT, "sw_top")
    /\ UNCHANGED <<cfgVars, sw_local, main_local, _fx_needs_restart, _fx_proc,
                   _passthrough_proc, fx_lock, orphans, fx_local,
                   fx_was_running, output_device, device>>

\* SweepStep, had the loop adopted direction_now for the rest of the ramp.
SweepStep_follows_direction_now ==
    /\ pc[SweepT] = "sw_step"
    /\ IF sw_local.step_count >= Len(steps(sw_local.direction))
       THEN /\ Goto(SweepT, "sw_top")
            /\ UNCHANGED sw_local
       ELSE /\ sw_local' = [sw_local EXCEPT
                  !.direction = state.direction,
                  !.step = steps(state.direction)[sw_local.step_count + 1],
                  !.running = state.running]
            /\ Goto(SweepT, IF state.running THEN "sw_tune" ELSE "sw_top")
    /\ UNCHANGED <<cfgVars, main_local, _fx_needs_restart, _fx_proc,
                   _passthrough_proc, fx_lock, orphans, fx_local,
                   fx_was_running, output_device, device>>

\* Head of `for step in steps`: the loop ends when steps is exhausted;
\* otherwise running is read again under state_lock (direction_now is read
\* and never used) and `if not running: break` leaves the ramp.
SweepStep ==
    /\ pc[SweepT] = "sw_step"
    /\ IF sw_local.step_count >= Len(steps(sw_local.direction))
       THEN /\ Goto(SweepT, "sw_top")
            /\ UNCHANGED sw_local
       ELSE /\ sw_local' = [sw_local EXCEPT
                  !.step = steps(sw_local.direction)[sw_local.step_count + 1],
                  !.running = state.running]
            /\ Goto(SweepT, IF state.running THEN "sw_tune" ELSE "sw_top")
    /\ UNCHANGED <<cfgVars, main_local, _fx_needs_restart, _fx_proc,
                   _passthrough_proc, fx_lock, orphans, fx_local,
                   fx_was_running, output_device, device>>

\* SweepTune, had the loop left the ramp when set_freq returns False.
SweepTune_breaks_on_failure ==
    /\ pc[SweepT] = "sw_tune"
    /\ \E success \in BOOLEAN :
          /\ sw_local' = [sw_local EXCEPT !.success = success,
                                          !.step_count = @ + 1]
          /\ Goto(SweepT, IF success THEN "sw_sleep" ELSE "sw_top")
    /\ UNCHANGED <<cfgVars, main_local, _fx_needs_restart, _fx_proc,
                   _passthrough_proc, fx_lock, orphans, fx_local,
                   fx_was_running, output_device, device>>

\* `set_freq(freq_mhz); step_count += 1`: set_freq returns False when the
\* tuner is unavailable or the I2C write raises, True otherwise; the value
\* is dropped by the caller.
SweepTune ==
    /\ pc[SweepT] = "sw_tune"
    /\ \E success \in BOOLEAN :
          sw_local' = [sw_local EXCEPT !.success = success,
                                       !.step_count = @ + 1]
    /\ Goto(SweepT, "sw_sleep")
    /\ UNCHANGED <<cfgVars, main_local, _fx_needs_restart, _fx_proc,
                   _passthrough_proc, fx_lock, orphans, fx_local,
                   fx_was_running, output_device, device>>

\* The LED pulse and `time.sleep(current_delay_seconds())`, no lock held.
SweepSleep ==
    /\ pc[SweepT] = "sw_sleep"
    /\ Goto(SweepT, "sw_step")
    /\ UNCHANGED <<cfgVars, sw_local, main_local, _fx_needs_restart, _fx_proc,
                   _passthrough_proc, fx_lock, orphans, fx_local,
                   fx_was_running, output_device, device>>

SweepThread ==
    \/ SweepSnapshot \/ SweepIdleSleep \/ SweepStep \/ SweepTune
    \/ SweepSleep

(* --------------------------- specifications --------------------------- *)

\* The process supervisor's steps, by whichever thread is inside a call.
Supervisor ==
    \/ \E t \in {FxT} \cup PlayCtx :
          StopFxTerm(t) \/ StopFxKill(t) \/ StopFxClear(t)
    \/ \E t \in {FxT, CmdT} \cup TimerThreads :
          StopPtTerm(t) \/ StopPtKill(t) \/ StopPtClear(t)
    \/ \E t \in {FxT, CmdT} : StartPtPopen(t)

\* The arbiter: fx_thread and the supervisor calls it is inside.
Arbiter == FxThread \/ Supervisor

\* START, STOP, FX ENABLE, FX DISABLE.
ModeCommands ==
    \/ CmdStart \/ CmdStop
    \/ CmdFxEnable \/ CmdFxDisable
    \/ CmdFlagRestart

\* FX SET, FX PRESET SET.
EditCommands ==
    \/ \E in \in FxSetInputs : CmdFxSet(in[1], in[2])
    \/ \E name \in PresetInputs : CmdFxPresetSet(name)

\* BT_AUDIO CONNECT / DISCONNECT and set_audio_output_device.
DeviceCommands ==
    \/ CmdBtAudioConnect \/ CmdBtAudioDisconnect
    \/ SetDeviceWrite \/ SetDeviceFlag \/ SetDeviceCheck
    \/ SetDeviceStop \/ SetDeviceStart

\* FM TEST and its timer thread.
FmTest ==
    \/ CmdFmTest
    \/ \E t \in TimerThreads : FmTestTimer(t) \/ TimerFires(t)

\* play_sound, in the command handler and in trigger threads.
PlaySound ==
    \/ CmdSoundPlay
    \/ \E t \in PlayThreads : RemPodTrigger(t) \/ MusicBoxTrigger(t)
    \/ \E t \in PlayCtx :
          PlayCheckFx(t) \/ PlayStopFx(t) \/ PlayPopen(t) \/ PlayWait(t)

\* The arbiter against the commands that configure the sweep, the effects
\* and the output device.
Next == Arbiter \/ ModeCommands \/ EditCommands \/ DeviceCommands

Spec == Init /\ [][Next]_vars

\* The arbiter against one-shot playback from the command handler and from
\* trigger threads.
NextPlay == Arbiter \/ ModeCommands \/ PlaySound

SpecPlay == Init /\ [][NextPlay]_vars

\* The arbiter against FM TEST, its timer and device changes.
NextFm == Arbiter \/ ModeCommands \/ FmTest \/ DeviceCommands

SpecFm == Init /\ [][NextFm]_vars

\* The steps fx_thread itself takes, its supervisor calls included.
FxThreadSteps ==
    \/ FxThread
    \/ StopFxTerm(FxT) \/ StopFxKill(FxT) \/ StopFxClear(FxT)
    \/ StopPtTerm(FxT) \/ StopPtKill(FxT) \/ StopPtClear(FxT)
    \/ StartPtPopen(FxT)

\* The steps by which a command already received runs to its end.
CmdThreadSteps ==
    \/ CmdFlagRestart
    \/ StopFxTerm(CmdT) \/ StopFxKill(CmdT) \/ StopFxClear(CmdT)
    \/ PlayCheckFx(CmdT) \/ PlayStopFx(CmdT) \/ PlayPopen(CmdT)
    \/ PlayWait(CmdT)

\* The steps by which a playback thread runs to its end.
PlayThreadSteps(t) ==
    \/ StopFxTerm(t) \/ StopFxKill(t) \/ StopFxClear(t)
    \/ PlayCheckFx(t) \/ PlayStopFx(t) \/ PlayPopen(t) \/ PlayWait(t)

\* fx_thread is a daemon thread that loops forever and the command handler
\* finishes the command it is in; a spawn that is retried for ever does not
\* fail for ever.  Which commands arrive, and when, is left open.
Fairness ==
    /\ WF_vars(FxThreadSteps)
    /\ WF_vars(CmdThreadSteps)
    /\ \A t \in PlayThreads : WF_vars(PlayThreadSteps(t))
    /\ SF_vars(FxPopen /\ Alive(_fx_proc'))
    /\ SF_vars(StartPtPopen(FxT) /\ Alive(_passthrough_proc'))

\* In the fair scenarios the effects are enabled before the sweep is started
\* and every FX SET changes the configuration, so the commands come to an
\* end and what the arbiter then does on its own decides the outcome.
EnableBeforeStart == ~state.running /\ CmdFxEnable

ChangingEdit ==
    \E in \in FxSetInputs :
        /\ FxSetAccepts(in[1], in[2])
        /\ FxSetApply(fx_config, in[1], in[2]) # fx_config
        /\ CmdFxSet(in[1], in[2])

\* The arbiter, fairly scheduled, against parameter edits.
NextLive ==
    Arbiter \/ CmdStart \/ EnableBeforeStart \/ CmdFlagRestart
        \/ ChangingEdit

LiveSpec == Init /\ [][NextLive]_vars /\ Fairness

\* The arbiter, fairly scheduled, against playback and FX DISABLE.
NextLivePlay ==
    Arbiter \/ CmdStart \/ EnableBeforeStart \/ CmdFxDisable
        \/ CmdFlagRestart \/ PlaySound

LiveSpecPlay == Init /\ [][NextLivePlay]_vars /\ Fairness

\* The steps of play_sound that are the program's own: the exit of the
\* player, which `proc.wait()` waits for, is not one of them.
PlaySoundOwnSteps(t) ==
    \/ StopFxTerm(t) \/ StopFxKill(t) \/ StopFxClear(t)
    \/ PlayCheckFx(t) \/ PlayStopFx(t) \/ PlayPopen(t)

\* Every thread goes on running its code; whether and when a player that
\* was started exits is left open.
FairnessOwnSteps ==
    /\ WF_vars(FxThreadSteps)
    /\ WF_vars(CmdFlagRestart \/ PlaySoundOwnSteps(CmdT))
    /\ \A t \in PlayThreads : WF_vars(PlaySoundOwnSteps(t))

\* The arbiter against playback, with players that may never exit.
LiveSpecSound == Init /\ [][NextLivePlay]_vars /\ FairnessOwnSteps

\* The steps of the command handler inside set_audio_output_device's calls
\* of _stop_passthrough and _start_passthrough.
CmdSupervisorSteps ==
    \/ StopPtTerm(CmdT) \/ StopPtKill(CmdT) \/ StopPtClear(CmdT)
    \/ StartPtPopen(CmdT)

\* Ticks and commands that do not overlap: a command is handled while
\* fx_thread sleeps, and a tick runs while no command is being handled.
NextTicks ==
    \/ pc[CmdT] = "idle" /\ FxThreadSteps
    \/ pc[FxT] = "sleep" /\ ModeCommands
    \/ pc[FxT] = "sleep" /\ EditCommands
    \/ pc[FxT] = "sleep" /\ DeviceCommands
    \/ pc[FxT] = "sleep" /\ CmdSupervisorSteps

SpecTicks == Init /\ [][NextTicks]_vars

\* SPEED, DIR, SWEEP_CFG, BOX_CFG and FX SET, from the tokens of the line.
ConfigCommands ==
    \/ \E tok \in SpeedArgs : CmdSpeed(tok)
    \/ \E sub \in DirArgs : CmdDir(sub)
    \/ \E in \in SweepCfgArgs : CmdSweepCfg(in[1], in[2])
    \/ \E in \in BoxCfgArgs : CmdBoxCfg(in[1], in[2])
    \/ \E in \in FxSetArgs : CmdFxSetArgs(in[1], in[2])
    \/ SendReply

\* The command handler on its own, one line after another.
NextCfg == ConfigCommands \/ CmdStart \/ CmdStop \/ CmdFlagRestart

SpecCfg == Init /\ [][NextCfg]_vars

\* The command handler on its own, with the commands that write the effects
\* configuration.
FxCommands ==
    \/ \E in \in FxSetArgs : CmdFxSetArgs(in[1], in[2])
    \/ \E name \in PresetInputs \cup {SavedPreset} : CmdFxPresetSet(name)
    \/ \E in \in PresetSaveArgs : CmdFxPresetSave(in[1], in[2])
    \/ CmdFxEnable \/ CmdFxDisable
    \/ CmdFlagRestart \/ SendReply

SpecFxCfg == Init /\ [][FxCommands]_vars

\* fx_thread against the commands that store effects parameters unchecked
\* and switch the effects on and off.
NextBuild ==
    \/ FxThreadSteps
    \/ CmdStart \/ CmdFxEnable \/ CmdFxDisable \/ CmdFlagRestart
    \/ \E in \in PresetSaveArgs : CmdFxPresetSave(in[1], in[2])
    \/ SendReply

SpecBuild == Init /\ [][NextBuild]_vars

\* The command handler on its own, with FX SET BP_LOW and FX SET BP_HIGH.
NextBand ==
    \/ \E value \in BandValues :
          CmdFxSet("BP_LOW", value) \/ CmdFxSet("BP_HIGH", value)
    \/ CmdFlagRestart

SpecBand == Init /\ [][NextBand]_vars

(* ------------------------------ __main__ ------------------------------ *)

\* __main__ from the lookup of the startup sound to bluetooth_server().  It
\* runs on the thread that then serves the commands, CmdT; fx_thread and
\* sweep_thread are "unstarted" until their Thread.start().

\* What is left alone by the steps of __main__.
MainUnchanged ==
    UNCHANGED <<cfgVars, sw_local, _fx_needs_restart, _fx_proc,
                _passthrough_proc, fx_lock, orphans, ret, fx_local,
                fx_was_running, output_device, device>>

\* `startup_path and os.path.exists(startup_path)`
StartupSoundPresent == main_local.startup_path # "" /\ main_local.present

\* `fx_t = threading.Thread(target=fx_thread, daemon=True); fx_t.start()`,
\* after which __main__ is at label l.
StartFxThread(l) ==
    /\ main_local' = [main_local EXCEPT !.fx_started = @ + 1]
    /\ pc' = [pc EXCEPT ![CmdT] = l,
                        ![FxT] = IF @ = "unstarted" THEN "tick" ELSE @]

\* `startup_name = state.startup_sound` and the lookup of the file in the
\* three sound folders: a name may be configured or not, the file may exist
\* or not, and its extension may be one a player is known for or not.
MainResolve ==
    /\ pc[CmdT] = "m_resolve"
    /\ \E configured \in BOOLEAN, exists \in BOOLEAN, supported \in BOOLEAN :
          main_local' =
              [main_local EXCEPT
                  !.startup_path = IF configured THEN "path" ELSE "",
                  !.present = configured /\ exists,
                  !.supported = supported]
    /\ pc' = [pc EXCEPT ![CmdT] = "m_check"]
    /\ MainUnchanged

\* `if startup_path and os.path.exists(startup_path):` and, inside it,
\* `cmd, player = _player_command_for(startup_path)`, `if not cmd:`.
MainCheck ==
    /\ pc[CmdT] = "m_check"
    /\ pc' = [pc EXCEPT ![CmdT] =
                 IF StartupSoundPresent
                 THEN IF main_local.supported THEN "m_play" ELSE "m_delay"
                 ELSE "m_sweep"]
    /\ UNCHANGED main_local
    /\ MainUnchanged

\* _blocking_playback: subprocess.run starts the player, or raises because
\* the player is not installed.
MainPlay ==
    /\ pc[CmdT] = "m_play"
    /\ \E outcome \in {"runs", "raises"} :
          IF outcome = "raises"
          THEN /\ pc' = [pc EXCEPT ![CmdT] = "m_delay"]
               /\ UNCHANGED main_local
          ELSE /\ pc' = [pc EXCEPT ![CmdT] = "m_wait"]
               /\ main_local' = [main_local EXCEPT !.player = "running"]
    /\ MainUnchanged

\* _blocking_playback: subprocess.run returns when the player has exited,
\* or kills it and raises TimeoutExpired after STARTUP_SOUND_TIMEOUT.
MainPlayEnds ==
    /\ pc[CmdT] = "m_wait"
    /\ \E end \in {"exited", "killed"} :
          main_local' = [main_local EXCEPT !.player = end]
    /\ pc' = [pc EXCEPT ![CmdT] = "m_delay"]
    /\ MainUnchanged

\* `time.sleep(1.0)`, apply_led_modes() and the start of fx_thread after the
\* startup sound.
MainDelay ==
    /\ pc[CmdT] = "m_delay"
    /\ StartFxThread("m_sweep")
    /\ MainUnchanged

\* `t = threading.Thread(target=sweep_thread, daemon=True); t.start()`
MainStartSweep ==
    /\ pc[CmdT] = "m_sweep"
    /\ pc' = [pc EXCEPT ![CmdT] = "m_check2", ![SweepT] = "sw_top"]
    /\ UNCHANGED main_local
    /\ MainUnchanged

\* MainServe, had it started fx_thread whether or not a sound was played.
MainServe_starts_always ==
    /\ pc[CmdT] = "m_check2"
    /\ StartFxThread("idle")
    /\ MainUnchanged

\* `if not (startup_path and os.path.exists(startup_path)):` with the start
\* of fx_thread, then the simulation threads and bluetooth_server().  The
\* files are the ones MainResolve found: nothing in the process writes the
\* sound folders before the server accepts commands.
MainServe ==
    /\ pc[CmdT] = "m_check2"
    /\ IF ~StartupSoundPresent
       THEN StartFxThread("idle")
       ELSE pc' = [pc EXCEPT ![CmdT] = "idle"] /\ UNCHANGED main_local
    /\ MainUnchanged

MainThread ==
    \/ MainResolve \/ MainCheck \/ MainPlay \/ MainPlayEnds
    \/ MainDelay \/ MainStartSweep \/ MainServe

\* The state when __main__ reaches the lookup of the startup sound.
InitMain ==
    /\ state = OracleBoxState_init
    /\ fx_config = FxConfig_init
    /\ audio_config = AudioConfig_init
    /\ led_config = LedConfig_init
    /\ FX_PRESETS = FX_PRESETS_init
    /\ disk = [config |-> to_config_dict(OracleBoxState_init),
               led |-> LedConfig_init]
    /\ _fx_needs_restart = FALSE
    /\ _fx_proc = None
    /\ _passthrough_proc = None
    /\ fx_lock = Unlocked
    /\ orphans = {}
    /\ pc = [t \in Threads |-> IF t = CmdT THEN "m_resolve"
                            ELSE IF t \in {FxT, SweepT} THEN "unstarted"
                            ELSE "idle"]
    /\ ret = [t \in Threads |-> "-"]
    /\ fx_local = [enabled |-> FALSE, needs_restart |-> FALSE,
                   sweep_running |-> FALSE, cmd |-> NoCmd]
    /\ fx_was_running = [t \in PlayCtx |-> FALSE]
    /\ output_device = [t \in {FxT, CmdT} |-> NoDevice]
    /\ device = NoDevice
    /\ sw_local = SweepLocals_init
    /\ main_local = MainLocals_init

\* __main__, then fx_thread and the commands that give it work.
NextMain ==
    \/ MainThread
    \/ FxThreadSteps
    \/ CmdStart
    \/ CmdFxEnable \/ CmdFxDisable
    \/ CmdFlagRestart

SpecMain == InitMain /\ [][NextMain]_vars

\* The process from its start with the saved files read, the arbiter and the
\* commands that decide whether it has anything to run.
NextBoot ==
    \/ FxThreadSteps
    \/ CmdStart \/ CmdStop
    \/ CmdFxEnable \/ CmdFxDisable
    \/ CmdFlagRestart

SpecBoot == InitBoot /\ [][NextBoot]_vars

\* The sweep is started, passthrough comes up, and FX ENABLE is issued once
\* while it is alive; no other command follows.
EnableWhilePassthrough ==
    state.running /\ Alive(_passthrough_proc) /\ ~fx_config.enabled
                  /\ CmdFxEnable

NextEnableOnce ==
    \/ FxThreadSteps
    \/ CmdStart
    \/ EnableWhilePassthrough
    \/ CmdFlagRestart

SpecEnableOnce == Init /\ [][NextEnableOnce]_vars

\* The arbiter against the three commands that route the audio output.
NextBt ==
    \/ Arbiter \/ ModeCommands \/ DeviceCommands
    \/ CmdBtAudioStreamPhone

SpecBt == Init /\ [][NextBt]_vars

\* The command handler on its own, with SPEED, FASTER and SLOWER.
NextSpeed ==
    \/ \E tok \in SpeedArgsWide : CmdSpeed(tok)
    \/ CmdFaster \/ CmdSlower
    \/ SendReply

SpecSpeed == Init /\ [][NextSpeed]_vars

\* sweep_thread against the commands that change what it reads.
SweepCommands ==
    \/ CmdStart \/ CmdStop
    \/ \E sub \in DirArgs : CmdDir(sub)
    \/ SendReply

NextSweep == SweepThread \/ SweepCommands

SpecSweep == Init /\ [][NextSweep]_vars

\* fx_thread, sweep_thread and play_sound side by side, with the sweep
\* started and the effects enabled before it; sweep_thread is followed
\* through the first MaxSweepSteps steps of a ramp.
NextLocks ==
    \/ FxThreadSteps
    \/ \E t \in PlayThreads : RemPodTrigger(t) \/ PlayThreadSteps(t)
    \/ sw_local.step_count < MaxSweepSteps /\ SweepThread
    \/ CmdStart \/ EnableBeforeStart \/ CmdFlagRestart

SpecLocks == Init /\ [][NextLocks]_vars

(* ------------------------------ claims -------------------------------- *)

LiveFx == Alive(_fx_proc)
LivePt == Alive(_passthrough_proc)

\* How many continuous pipelines are alive.
NumAlive ==
    (IF LiveFx THEN 1 ELSE 0) + (IF LivePt THEN 1 ELSE 0)
        + Cardinality(orphans)

\* The threads whose player process is alive.
Players == {t \in PlayCtx : pc[t] = "ps_wait"}

\* A step in which a continuous pipeline is spawned and runs.
SpawnsContinuous ==
    \/ pc[FxT] = "e_popen" /\ pc'[FxT] # "e_popen" /\ Alive(_fx_proc')
    \/ \E t \in {FxT, CmdT} :
          /\ pc[t] = "stp_popen" /\ pc'[t] # "stp_popen"
          /\ Alive(_passthrough_proc')

\* The arbiter has finished a tick and the command handler is between
\* commands: what the next tick does is decided by the state as it is.
Quiescent == pc[FxT] = "sleep" /\ pc[CmdT] = "idle"

\* C1: in every reachable state at most one continuous pipeline process
\* (effects or passthrough) is alive.
C1_AtMostOnePipeline == NumAlive <= 1

\* C2: while a player process started by play_sound is alive, no step
\* starts or restarts a continuous pipeline.
C2_NoSpawnDuringPlayback == [][Players # {} => ~SpawnsContinuous]_vars

\* C3: play_sound never goes on to spawn its player past a continuous
\* pipeline that is alive when it looks for one to stop.
C3_StoppedBeforePlayer ==
    [][\A t \in PlayCtx :
          (pc[t] = "ps_check" /\ pc'[t] = "ps_popen") =>
              (~LiveFx /\ ~LivePt)]_vars

\* C5: at most one player process is alive at any time.
C5_OnePlayer == Cardinality(Players) <= 1

\* C6: once a tick that saw running false has completed, and while running
\* is still false, no continuous pipeline is alive.
C6_SilentWhenStopped ==
    (pc[FxT] = "sleep" /\ ~fx_local.sweep_running /\ ~state.running)
        => NumAlive = 0

\* The sweep is stopped and the arbiter is not inside a tick that saw it
\* running.
ArbiterIdle ==
    \/ pc[FxT] \in {"sleep", "tick", "tick_clear", "read_state", "nr_fx",
                    "nr_pt"}
    \/ /\ pc[FxT] \in {"sfx_term", "sfx_kill", "sfx_clear", "spt_term",
                       "spt_kill", "spt_clear"}
       /\ ret[FxT] \in {"nr_pt", "sleep"}
SweepIdle == ~state.running /\ ArbiterIdle

\* A step of the arbiter, or of an effects-configuration command (FX ENABLE,
\* FX DISABLE, FX SET, FX PRESET SET and the flag they raise).
ArbiterOrFxConfigStep ==
    \/ pc'[FxT] # pc[FxT]
    \/ /\ pc[CmdT] \in {"idle", "cmd_flag"}
       /\ pc'[CmdT] \in {"idle", "cmd_flag"}
       /\ state' = state

\* C7: with the sweep stopped, no arbiter tick and no effects-configuration
\* command spawns a continuous pipeline, nor brings the arbiter to where it
\* would spawn one.
C7_NoSpawnWhileStopped ==
    [][(SweepIdle /\ ArbiterOrFxConfigStep) =>
          (SweepIdle' /\ ~SpawnsContinuous)]_vars

\* C7 witness: effects were enabled with the sweep stopped, a tick has seen
\* enabled = true and completed, and nothing runs.
C7_Witness ==
    /\ SweepIdle /\ pc[FxT] = "sleep"
    /\ fx_config.enabled /\ fx_local.enabled /\ ~fx_local.sweep_running
    /\ ~_fx_needs_restart
    /\ NumAlive = 0

\* The effects command the current parameters and device call for.
WantedFxCmd == build_sox_cmd_from_fx(fx_config, audio_config.current_device)

\* The held effects pipeline was built from other parameters than the
\* current ones.
StaleParams ==
    /\ LiveFx
    /\ [_fx_proc.cmd EXCEPT !.dev = NoDevice]
          # [WantedFxCmd EXCEPT !.dev = NoDevice]

\* C8: an effects pipeline whose parameters were edited since it was built
\* is restarted by the next tick: between ticks, with no command in
\* progress, the edit is still flagged.
C8_EditRestartsPipeline ==
    (Quiescent /\ state.running /\ fx_config.enabled /\ StaleParams)
        => _fx_needs_restart

\* The held effects pipeline is one the arbiter will leave running as it is.
FxSettled ==
    /\ Quiescent /\ state.running /\ fx_config.enabled
    /\ LiveFx /\ ~_fx_needs_restart

\* C9: a restart request is never lost: an effects pipeline built from
\* parameters older than the current ones is eventually replaced or stopped.
C9_RestartNeverLost ==
    (state.running /\ fx_config.enabled /\ StaleParams)
        ~> ~(state.running /\ fx_config.enabled /\ StaleParams)

\* C10: no effects pipeline bound to a device other than current_device
\* stays alive: one the arbiter will leave running targets current_device.
C10_DeviceChangeRebinds ==
    FxSettled => _fx_proc.cmd.dev = audio_config.current_device

\* C4: when play_sound has stopped the effects pipeline for a playback, a
\* continuous pipeline is eventually running again unless the sweep stops.
C4_PipelineReturns ==
    \A t \in PlayCtx :
        (pc[t] = "ps_wait" /\ fx_was_running[t])
            ~> (~state.running \/ LiveFx \/ LivePt)

\* A tick has completed and no command is in progress.
AfterTick == pc[FxT] = "sleep" /\ pc[CmdT] = "idle"

\* Nothing the tick reads has changed since the completed tick read it.
SnapshotCurrent ==
    /\ state.running = fx_local.sweep_running
    /\ fx_config.enabled = fx_local.enabled
    /\ ~_fx_needs_restart

\* Whether a tick run on the state as it is would stop a pipeline, and
\* whether it would start one.
NextTickStops ==
    LET b == FxBranch(state.running, fx_config.enabled)
    IN  CASE b = "nr_fx" -> _fx_proc # None \/ _passthrough_proc # None
          [] b = "d_fx" -> _fx_proc # None
          [] b = "e_pt" -> \/ _passthrough_proc # None
                           \/ _fx_proc # None /\ _fx_needs_restart

NextTickStarts ==
    LET b == FxBranch(state.running, fx_config.enabled)
    IN  CASE b = "nr_fx" -> FALSE
          [] b = "d_fx" -> _passthrough_proc = None
          [] b = "e_pt" -> _fx_proc = None \/ _fx_needs_restart

TickSawPassthroughMode ==
    AfterTick /\ fx_local.sweep_running /\ ~fx_local.enabled

\* The completed tick observed running = true and enabled = true.
TickSawEffectsMode ==
    AfterTick /\ fx_local.sweep_running /\ fx_local.enabled

\* C12: after a tick that observed running = true and enabled = false no
\* effects pipeline is alive and a passthrough pipeline is alive, or its
\* start raised and the handle is empty for the next tick to retry.
C12_PassthroughAfterTick ==
    TickSawPassthroughMode =>
        /\ ~LiveFx
        /\ LivePt \/ _passthrough_proc = None

ArbiterSpawns ==
    \/ pc[FxT] = "e_popen" /\ pc'[FxT] # "e_popen"
    \/ pc[FxT] = "stp_popen" /\ pc'[FxT] # "stp_popen"

\* C14: whenever fx_thread spawns a pipeline, the stops that precede the
\* spawn have returned and both handles are cleared.
C14_StopPrecedesStart ==
    [][ArbiterSpawns => (_fx_proc = None /\ _passthrough_proc = None)]_vars

\* A step of fx_thread, its supervisor calls included.
ArbiterStep == pc'[FxT] # pc[FxT]

\* A step of play_sound inside its `_stop_fx_proc()`.
PlaybackStopStep ==
    \E t \in PlayCtx :
        /\ pc[t] \in {"sfx_term", "sfx_kill", "sfx_clear"}
        /\ pc'[t] # pc[t]

\* C15: a pipeline handle changes (a pipeline is started, signalled or
\* dropped) only in a step of fx_thread or of play_sound's stop of the
\* effects pipeline; device changes and FM TEST touch no pipeline.
C15_OnlyArbiterTouchesPipelines ==
    [][(_fx_proc' # _fx_proc \/ _passthrough_proc' # _passthrough_proc)
          => (ArbiterStep \/ PlaybackStopStep)]_vars

\* Thread t takes a step inside play_sound, its `_stop_fx_proc()` included.
PlaySoundStep(t) ==
    /\ pc[t] \in {"ps_check", "ps_stop", "ps_popen", "ps_wait", "sfx_term",
                  "sfx_kill", "sfx_clear"}
    /\ pc'[t] # pc[t]

\* Thread t returns from play_sound.
PlaySoundReturns(t) ==
    pc[t] \in {"ps_popen", "ps_wait"} /\ pc'[t] = "idle"

\* C16: no step of play_sound starts a continuous pipeline (the passthrough
\* handle is untouched, the effects handle only loses its process and no
\* more pipelines are alive after the step than before), and
\* play_sound returns, on every path, with the restart flag set when it had
\* stopped the effects pipeline.
C16_PlaybackNeverSpawns ==
    [][\A t \in PlayCtx :
          /\ PlaySoundStep(t) =>
                /\ _passthrough_proc' = _passthrough_proc
                /\ _fx_proc' = _fx_proc \/ ~Alive(_fx_proc')
                /\ NumAlive' <= NumAlive
          /\ (PlaySoundReturns(t) /\ fx_was_running[t]) => _fx_needs_restart'
      ]_vars

\* C16 witness: play_sound has stopped the effects pipeline and its player
\* is running; the flag is not set yet and the return is still to come.
C16_Witness ==
    \E t \in PlayCtx :
        /\ pc[t] = "ps_wait" /\ fx_was_running[t]
        /\ _fx_proc = None /\ ~_fx_needs_restart

\* A tick that saw the sweep running has ended with the handle of the
\* pipeline it had to start empty: the start failed.
PassthroughStartFailed ==
    /\ pc[FxT] = "sleep" /\ fx_local.sweep_running /\ ~fx_local.enabled
    /\ _passthrough_proc = None
EffectsStartFailed ==
    /\ pc[FxT] = "sleep" /\ fx_local.sweep_running /\ fx_local.enabled
    /\ _fx_proc = None

\* C17: a spawn attempt, whatever comes of it, returns to its caller with
\* the handle empty or referring to the pipeline asked for, and after a
\* failed start fx_thread comes to attempt the spawn again unless the state
\* has stopped calling for the pipeline.
C17_FailedSpawnRetried ==
    /\ [][/\ \A t \in {FxT, CmdT} :
               (pc[t] = "stp_popen" /\ pc'[t] # pc[t]) =>
                   /\ pc'[t] = ret[t]
                   /\ \/ _passthrough_proc' = None
                      \/ _passthrough_proc'.cmd
                             = passthrough_cmd(output_device[t])
          /\ (pc[FxT] = "e_popen" /\ pc'[FxT] # pc[FxT]) =>
                   /\ pc'[FxT] = "sleep"
                   /\ _fx_proc' = None \/ _fx_proc'.cmd = fx_local.cmd
        ]_vars
    /\ PassthroughStartFailed
          ~> (pc[FxT] = "stp_popen" \/ ~state.running \/ fx_config.enabled)
    /\ EffectsStartFailed
          ~> (pc[FxT] = "e_popen" \/ ~state.running \/ ~fx_config.enabled)

\* C17 witness: the start of the passthrough has failed and left the handle
\* empty, with the state still calling for it.
C17_Witness ==
    PassthroughStartFailed /\ state.running /\ ~fx_config.enabled

\* C18: a spawn attempt of either kind by fx_thread leaves the handle empty
\* or referring to a live process: a pipeline that exits at once is detected
\* in the same tick and its handle cleared.
C18_NoHandleForDeadStart ==
    [][/\ (pc[FxT] = "e_popen" /\ pc'[FxT] # pc[FxT]) =>
              (_fx_proc' = None \/ Alive(_fx_proc'))
       /\ (pc[FxT] = "stp_popen" /\ pc'[FxT] # pc[FxT]) =>
              (_passthrough_proc' = None \/ Alive(_passthrough_proc'))
      ]_vars

\* A step that handles one of the lines to be rejected: FX SET with a value
\* out of range, an unknown parameter or a value that is no number, DIR
\* with a bad value, SPEED with no number, SWEEP_CFG / BOX_CFG with a value
\* out of range, min over max, an unknown field or no number.
BadValueStep ==
    \/ \E in \in FxSetArgs :
          /\ ~(int(in[2]).ok /\ FxSetAccepts(in[1], int(in[2]).val))
          /\ CmdFxSetArgs(in[1], in[2])
    \/ \E sub \in DirArgs \ {"UP", "DOWN", "TOGGLE"} : CmdDir(sub)
    \/ \E tok \in SpeedArgs : ~int(tok).ok /\ CmdSpeed(tok)
    \/ \E in \in SweepCfgArgs :
          LedCfgRejects(SweepFields, in[1], in[2]) /\ CmdSweepCfg(in[1], in[2])
    \/ \E in \in BoxCfgArgs :
          LedCfgRejects(BoxFields, in[1], in[2]) /\ CmdBoxCfg(in[1], in[2])

\* C19: a command rejected for a bad value or range returns an error, and a
\* command that returns an error has left state, fx_config, audio_config,
\* led_config and _fx_needs_restart as they were.
C19_RejectedLeavesState ==
    [][(BadValueStep \/ pc'[CmdT] = "reply_err") =>
          /\ pc'[CmdT] = "reply_err"
          /\ UNCHANGED <<state, fx_config, audio_config, led_config,
                         _fx_needs_restart>>
      ]_vars

\* C19 witness: an error is being returned after earlier commands changed
\* the direction, the LED configuration and the effects parameters.
C19_Witness ==
    /\ pc[CmdT] = "reply_err"
    /\ state.direction = -1
    /\ led_config # LedConfig_init
    /\ fx_config.preset = "CUSTOM" /\ _fx_needs_restart

\* What config.json and led_config.json would hold if written now.
InMemoryConfig == [config |-> to_config_dict(state), led |-> led_config]

\* C20: between commands, and when a command returns, the configuration in
\* memory is the configuration on disk: a save that fails rolls the value
\* in memory back.
C20_MemoryMatchesDisk ==
    pc[CmdT] \in {"idle", "reply_ok", "reply_err"} => disk = InMemoryConfig

\* The sweep loop is inside a ramp: between the start of `for step in steps`
\* and its end or break.
InRamp == pc[SweepT] \in {"sw_step", "sw_tune", "sw_sleep"}

\* The sweep loop is inside a ramp some of whose steps have been tuned: the
\* next tune call it issues is not the first of a ramp.
MidRamp == InRamp /\ sw_local.step_count > 0

\* C21: once running has been set false during a ramp the loop abandons that
\* ramp, so at the moment running becomes true again no partly tuned ramp is
\* in progress and the next tune call is the first step of a fresh ramp from
\* a band edge.
C21_RestartFindsRampAbandoned ==
    [][(~state.running /\ state'.running) => ~MidRamp']_vars

\* The band edge a ramp in the given direction starts from, in tenths of a
\* MHz.
StartEdge(direction) == IF direction = 1 THEN 880 ELSE 1080

\* C22: a ramp takes the direction state holds when the ramp starts and
\* keeps it to its end whatever DIR does meanwhile; its first frequency is
\* that direction's starting edge and every later one lies strictly further
\* in that direction than the one before.
C22_RampKeepsItsDirection ==
    [][/\ (pc[SweepT] = "sw_top" /\ pc'[SweepT] = "sw_step")
             => sw_local'.direction = state.direction
       /\ (InRamp /\ InRamp') => sw_local'.direction = sw_local.direction
       /\ (pc[SweepT] = "sw_step" /\ pc'[SweepT] = "sw_tune")
             => IF sw_local.step_count = 0
                THEN sw_local'.step = StartEdge(sw_local.direction)
                ELSE (sw_local'.step - sw_local.step) * sw_local.direction
                        > 0]_vars

\* A down ramp started after DIR DOWN has tuned 108.0 and 107.8 MHz and is
\* about to go on downwards although the direction is UP again.
C22_Witness ==
    /\ pc[SweepT] = "sw_tune"
    /\ sw_local.direction = -1 /\ state.direction = 1
    /\ sw_local.step_count = 2 /\ sw_local.step = 1076

\* The band edge a ramp in the given direction ends at, in tenths of a MHz.
FarEdge(direction) == IF direction = 1 THEN 1080 ELSE 880

\* The for loop ends because steps is exhausted, not by break: the ramp was
\* not interrupted.
RampCompletes ==
    /\ pc[SweepT] = "sw_step" /\ pc'[SweepT] = "sw_top"
    /\ sw_local'.running

\* C23: an uninterrupted ramp tunes its starting edge first (88.0 MHz up,
\* 108.0 MHz down) and the opposite edge last (108.0 MHz up, 88.0 MHz down),
\* in steps of 0.2 MHz, both edges included.
C23_RampCoversBothEdges ==
    [][/\ (pc[SweepT] = "sw_step" /\ pc'[SweepT] = "sw_tune")
             => sw_local'.step =
                   StartEdge(sw_local.direction)
                     + 2 * sw_local.direction * sw_local.step_count
       /\ RampCompletes => sw_local.step = FarEdge(sw_local.direction)]_vars

\* A step of sweep_thread.
SweepThreadStep == pc'[SweepT] # pc[SweepT]

\* C24: a step of the sweep loop changes neither running, direction nor
\* speed_index, nor the restart flag, nor a pipeline or its handle; and the
\* loop stops sweeping only when it finds running false, which only a
\* command makes it.
C24_SweepOnlyReadsState ==
    [][SweepThreadStep =>
          /\ state' = state
          /\ _fx_needs_restart' = _fx_needs_restart
          /\ _fx_proc' = _fx_proc
          /\ _passthrough_proc' = _passthrough_proc
          /\ orphans' = orphans
          /\ (sw_local.running /\ ~sw_local'.running) => ~state.running]_vars

\* The loop tuned some steps of a ramp, found running false after STOP and
\* now idles.
C24_Witness ==
    /\ pc[SweepT] = "sw_idle"
    /\ sw_local.step_count > 0
    /\ ~sw_local.running /\ ~state.running

\* C25: a tune call that fails changes nothing the loop goes by: state is
\* as before, the step counts as done and the loop goes on to its step
\* delay; and at the next step, with running still true and steps left, the
\* loop issues the next tune call although the last one failed.
C25_FailedTuneIsIgnored ==
    [][/\ (pc[SweepT] = "sw_tune" /\ SweepThreadStep /\ ~sw_local'.success)
             => /\ state' = state
                /\ pc'[SweepT] = "sw_sleep"
                /\ sw_local'.step_count = sw_local.step_count + 1
       /\ (/\ pc[SweepT] = "sw_step" /\ SweepThreadStep
           /\ ~sw_local.success /\ state.running
           /\ sw_local.step_count < Len(steps(sw_local.direction)))
             => /\ pc'[SweepT] = "sw_tune"
                /\ sw_local'.step =
                      StartEdge(sw_local.direction)
                        + 2 * sw_local.direction * sw_local.step_count]_vars

\* Two tune calls of a ramp are done, the second failed, and the loop is
\* about to issue the third.
C25_Witness ==
    /\ pc[SweepT] = "sw_tune"
    /\ ~sw_local.success
    /\ sw_local.step_count = 2 /\ sw_local.step = 884
    /\ state.running

\* The locks a thread holds between two of its steps.  The blocks under
\* state_lock and audio_lock hold attribute reads and writes and the
\* configuration save only, and are each inside one step; only fx_thread's
\* `with fx_lock:` block spans two steps.
LocksHeld(t) == IF fx_lock = t THEN {"fx_lock"} ELSE {}

\* The positions at which a thread sleeps, waits for a child process, or is
\* about to start or stop a pipeline or is inside that call.
SleepLabels == {"sleep", "sw_idle", "sw_sleep"}
WaitLabels == {"ps_wait"}
StopLabels ==
    {"nr_fx", "nr_pt", "d_fx", "e_pt", "ps_stop", "sfx_term", "sfx_kill",
     "sfx_clear", "spt_term", "spt_kill", "spt_clear"}
StartLabels == {"d_pt", "stp_popen", "e_popen", "ps_popen"}

EnabledReadParamsUnread == pc[FxT] \in {"e_pt", "e_chk", "e_build"}

\* C27: enabled and the parameters baked into a command come from one
\* atomic snapshot of the effects configuration: between fx_thread's read
\* of enabled and its read of the parameters no command changes the
\* configuration.
C27_NoEditBetweenReads ==
    [][EnabledReadParamsUnread => fx_config' = fx_config]_vars

\* C28: every invocation of play_sound eventually returns, whether or not
\* the player it started ever exits.
C28_PlaySoundReturns ==
    \A t \in PlayCtx : (pc[t] = "ps_check") ~> (pc[t] = "idle")

\* A thread returns from _stop_fx_proc, from _stop_passthrough.
StopFxReturns == \E t \in Threads : pc[t] = "sfx_clear" /\ pc'[t] # pc[t]
StopPtReturns == \E t \in Threads : pc[t] = "spt_clear" /\ pc'[t] # pc[t]

\* C29: a stop sends SIGTERM to the group before SIGKILL, and on each of its
\* paths it returns with the handle cleared and with no process alive that
\* the handle referred to.
C29_StopLeavesNothingAlive ==
    [][/\ StopFxReturns => _fx_proc' = None /\ ~Alive(_fx_proc)
       /\ StopPtReturns
             => _passthrough_proc' = None /\ ~Alive(_passthrough_proc)
       /\ \A t \in Threads :
             /\ pc'[t] = "sfx_kill" => pc[t] \in {"sfx_term", "sfx_kill"}
             /\ pc'[t] = "spt_kill" => pc[t] \in {"spt_term", "spt_kill"}]_vars

\* C30: every numeric parameter the effects configuration holds lies in its
\* range: bp_low 100..2000, bp_high 300..5000, the four reverb values
\* 0..100, contrast 0..40, pre-gain -24..0, post-gain 0..18.
C30_ParametersInRange ==
    /\ 100 <= fx_config.bp_low /\ fx_config.bp_low <= 2000
    /\ 300 <= fx_config.bp_high /\ fx_config.bp_high <= 5000
    /\ \A k \in {"reverb_room", "reverb_damping", "reverb_wet",
                 "reverb_dry"} :
          0 <= fx_config[k] /\ fx_config[k] <= 100
    /\ 0 <= fx_config.contrast_amount /\ fx_config.contrast_amount <= 40
    /\ -24 <= fx_config.pre_gain_db /\ fx_config.pre_gain_db <= 0
    /\ 0 <= fx_config.post_gain_db /\ fx_config.post_gain_db <= 18

\* The values baked into an effects command are within the safe ranges.
CmdInRange(cmd) ==
    cmd.kind = "fx" =>
        /\ 100 <= cmd.bp_low /\ cmd.bp_low <= 2000
        /\ cmd.bp_low + 200 <= cmd.bp_high /\ cmd.bp_high <= 5000
        /\ -24 <= cmd.pre_gain /\ cmd.pre_gain <= 0
        /\ 0 <= cmd.post_gain /\ cmd.post_gain <= 18
        /\ 0 <= cmd.contrast /\ cmd.contrast <= 40
        /\ \A k \in {"room", "damp", "wet", "dry"} :
              0 <= cmd[k] /\ cmd[k] <= 100

\* C31: whatever values the effects configuration stores, the command
\* build_sox_cmd_from_fx returns, and so the command of every effects
\* pipeline started, carries values within the safe ranges with the band at
\* least 200 Hz wide; with effects disabled it returns no command.
C31_BuiltCommandInRange ==
    /\ [](/\ CmdInRange(fx_local.cmd)
          /\ _fx_proc # None => CmdInRange(_fx_proc.cmd))
    /\ [][(pc[FxT] = "e_build" /\ pc'[FxT] # "e_build")
             => IF fx_config.enabled
                THEN fx_local'.cmd.kind = "fx" /\ pc'[FxT] = "e_popen"
                ELSE fx_local'.cmd = NoCmd /\ pc'[FxT] = "sleep"]_vars

\* An effects pipeline runs with the band 100-600 Hz, reverb room 100 and
\* post-gain 0 while the configuration stores bp_low 10, reverb_room 300 and
\* post_gain_db -5.
C31_Witness ==
    /\ Alive(_fx_proc)
    /\ fx_config.bp_low = 10 /\ _fx_proc.cmd.bp_low = 100
    /\ fx_config.reverb_room = 300 /\ _fx_proc.cmd.room = 100
    /\ fx_config.post_gain_db = -5 /\ _fx_proc.cmd.post_gain = 0

\* Both band edges are within their ranges and at least 200 Hz apart.
BandValid(fx) ==
    /\ 100 <= fx.bp_low /\ fx.bp_low <= 2000
    /\ 300 <= fx.bp_high /\ fx.bp_high <= 5000
    /\ fx.bp_high - fx.bp_low >= 200

\* C32: FX SET BP_LOW and FX SET BP_HIGH take a valid band to a valid band;
\* a command that is accepted stores its value in the edge it names and
\* moves the other edge when the gap would fall under 200 Hz.
C32_BandStaysValid ==
    [][(BandValid(fx_config) /\ fx_config' # fx_config)
          => /\ BandValid(fx_config')
             /\ \/ fx_config'.bp_low \in BandValues
                \/ fx_config'.bp_high \in BandValues]_vars

\* FX SET BP_HIGH 400 against a low edge above 200 Hz has moved the low edge
\* to 200 Hz, a value no command named.
C32_Witness ==
    /\ fx_config.bp_high = 400 /\ fx_config.bp_low = 200
    /\ BandValid(fx_config)

\* C33: speed_index is always one of the 7 indices of the speed list; FASTER
\* at index 0 and SLOWER at index 6 leave it where it is and still return
\* "OK SPEED" with the speed of that index, and elsewhere they move it by
\* one.
C33_SpeedIndexValid ==
    /\ [](state.speed_index \in 0..6)
    /\ [][/\ (pc[CmdT] = "idle" /\ pc'[CmdT] = "faster_ok")
                => state'.speed_index =
                      IF state.speed_index = 0 THEN 0
                      ELSE state.speed_index - 1
          /\ (pc[CmdT] = "idle" /\ pc'[CmdT] = "slower_ok")
                => state'.speed_index =
                      IF state.speed_index = 6 THEN 6
                      ELSE state.speed_index + 1
          /\ pc[CmdT] \in {"faster_ok", "slower_ok", "reply_ok"}
                => state' = state]_vars

\* FASTER has been answered OK at the fastest speed after SPEED -5 chose it.
C33_Witness ==
    /\ pc[CmdT] = "faster_ok"
    /\ state.speed_index = 0
    /\ disk.config.speed_ms = 50

\* C34: whatever config.json and fx_config.json hold, the process starts
\* with running false and effects disabled; running becomes true only by
\* START, the arbiter sees the sweep as running only once running is true,
\* and a pipeline comes alive only when the arbiter has seen the sweep
\* running.
C34_StartsStoppedAndDisabled ==
    /\ ~state.running /\ ~fx_config.enabled /\ ~fx_local.sweep_running
    /\ [][(~state.running /\ state'.running)
             => /\ pc[CmdT] = "idle"
                /\ state' = [state EXCEPT !.running = TRUE]]_vars
    /\ [][(~fx_local.sweep_running /\ fx_local'.sweep_running)
             => state.running]_vars
    /\ [](pc[FxT] \in StartLabels => fx_local.sweep_running)
    /\ [][((Alive(_fx_proc') /\ ~Alive(_fx_proc))
              \/ (Alive(_passthrough_proc') /\ ~Alive(_passthrough_proc)))
             => fx_local.sweep_running]_vars

\* The files said running and enabled, the arbiter has run, and nothing has
\* been started.
C34_Witness ==
    /\ "running" \in DOMAIN disk.config
    /\ disk.config.running
    /\ fx_config.bp_low = 50
    /\ ~state.running
    /\ pc[FxT] = "sleep"
    /\ _fx_proc = None /\ _passthrough_proc = None

\* C35: while the 10-second timer of an FM TEST is still waiting, a
\* passthrough pipeline that is alive stays alive, whether or not the sweep
\* is running.
C35_TestToneLastsUntilTimer ==
    [][(/\ LivePt
        /\ \E t \in TimerThreads : pc[t] = "tm_wait" /\ pc'[t] = "tm_wait")
          => LivePt']_vars

\* C36: after the one FX ENABLE issued while the sweep runs and passthrough
\* is alive, the effects pipeline that has been started is not stopped and
\* started again.
C36_EnableStartsEffectsOnce ==
    [][LiveFx => LiveFx']_vars

\* The handle h is left alone or its process is signalled; it is not
\* cleared or given another process.
C37_Kept(h, hNext) == hNext = h \/ hNext = [h EXCEPT !.alive = FALSE]

\* C37: a handle whose process is alive is never cleared or overwritten,
\* and no live continuous pipeline is left without a handle referring to it.
C37_NoPipelineOrphaned ==
    /\ [][/\ Alive(_fx_proc) => C37_Kept(_fx_proc, _fx_proc')
          /\ Alive(_passthrough_proc)
                => C37_Kept(_passthrough_proc, _passthrough_proc')]_vars
    /\ [](orphans = {})

C39_AcquireLabels ==
    {"idle", "tick", "read_state", "e_build", "d_pt", "ps_check", "sw_top",
     "sw_step", "sad_set", "sad_start"}

C40_BtFieldsAgree ==
    /\ audio_config.bt_connected <=> audio_config.bt_device # NoDevice
    /\ ~audio_config.bt_connected
          => audio_config.current_device = audio_config.default_device

\* DISCONNECT has reverted to the speaker after STREAM_PHONE, and
\* set_audio_output_device is restarting a passthrough that is alive.
C40_Witness ==
    /\ pc[CmdT] = "sad_stop"
    /\ device = DefaultDevice
    /\ ~audio_config.bt_connected
    /\ LivePt
    /\ _passthrough_proc.cmd.dev = BtSink

====
